---- MODULE Spec2Model ----
\* A model of the DTP API client (BIM2TWIN DTP_API): the session log written by
\* the mutating operations, the log line parser, the revert of a session log
\* against the store, the simulation mode and the pagination walker.
\*
\* Text is modelled as a sequence of symbols.  A marker, an identifier (IRI,
\* UUID, path, field name, value) and a timestamp are each ONE symbol of the
\* alphabet; blank, comma, colon, brackets and the quote are symbols too.
\* len(marker) is therefore 1, and str.find / slicing / split / strip work on
\* symbol positions exactly as the Python code works on character positions.
EXTENDS Integers, Sequences, FiniteSets, TLC

VARIABLES
  simulation_mode,  \* DTPApi.simulation_mode
  nodes,            \* the store: IRI -> node (or NoNode)
  blobs,            \* the store: the blob UUIDs that exist
  dumps,            \* node backup dumps in node_log_dir: file name -> fetched JSON
  files,            \* session log files: name -> sequence of lines
  handlers,         \* file handlers attached to the 'session_DTP' logger
  sent,             \* requests sent over the network by the current/last call
  ret,              \* what the last call returned ("raise" when it raised)
  last,             \* the last call: operation, mode, store answer, lines appended
  calls,            \* number of API calls made in this session
  rv,               \* revert_last_session: position in the file, counter, dispatches
  pre_session,      \* the store as it was when the session began
  px,               \* log writer / parser round trip (pure functions)
  pg,               \* query_all_pages: the page chain and the accumulated result
  rs,               \* revert_sessions: the sorted listing and the passes made
  gw                \* a direct call of the gateway: its response, error and events

vars == <<simulation_mode, nodes, blobs, dumps, files, handlers, sent, ret, last,
          calls, rv, pre_session, px, pg, rs, gw>>

\* ------------------------------------------------------------------ bounds
MaxCalls == 2      \* API calls per session
MaxLines == 3      \* lines of a session log handed to revert_last_session
MaxList == 2       \* identifiers in a list payload
MaxPages == 3      \* pages of a result-set chain
MaxItems == 2      \* items of one page
MaxFetches == 6    \* pages query_all_pages is followed for on a chain that never ends

\* ------------------------------------------------------------------ text
None == "None"
Raise == "raise"

RECURSIVE LStrip(_)
LStrip(s) == IF s # <<>> /\ Head(s) = " " THEN LStrip(Tail(s)) ELSE s

RECURSIVE RStrip(_)
RStrip(s) == IF s # <<>> /\ s[Len(s)] = " " THEN RStrip(SubSeq(s, 1, Len(s) - 1)) ELSE s

\* str.strip()
Strip(s) == RStrip(LStrip(s))

\* sym in s
Has(s, sym) == \E i \in 1..Len(s) : s[i] = sym

\* s.find(sym) + 1 : the first position of sym, 0 when absent
Find(s, sym) == IF Has(s, sym) THEN CHOOSE i \in 1..Len(s) : s[i] = sym /\ \A j \in 1..(i - 1) : s[j] # sym
                ELSE 0

\* s.split(sep, 1)
SplitOnce(s, sep) ==
  LET i == Find(s, sep)
  IN IF i = 0 THEN <<s>> ELSE <<SubSeq(s, 1, i - 1), SubSeq(s, i + 1, Len(s))>>

\* s.split(sep)
RECURSIVE Split(_, _)
Split(s, sep) ==
  LET i == Find(s, sep)
  IN IF i = 0 THEN <<s>> ELSE <<SubSeq(s, 1, i - 1)>> \o Split(SubSeq(s, i + 1, Len(s)), sep)

\* sep.join(parts)
RECURSIVE Join(_, _)
Join(parts, sep) ==
  IF parts = <<>> THEN <<>>
  ELSE IF Len(parts) = 1 THEN parts[1]
  ELSE parts[1] \o sep \o Join(Tail(parts), sep)

\* str(list_of_str): Python renders ['a', 'b']
PyReprList(lst) ==
  <<"[">> \o Join([i \in 1..Len(lst) |-> <<"'">> \o lst[i] \o <<"'">>], <<",", " ">>) \o <<"]">>

\* ------------------------------------------------------------------ markers
log_markers_node_classes ==
  {"NEW_ELEMENT_IRI", "NEW_DEFECT_IRI", "NEW_ACTION_IRI", "NEW_OPERATION_IRI",
   "NEW_CONSTRUCTION_IRI", "NEW_KPI_IRI"}

other_log_markers ==
  {"NEW_LINK_ELEMENT_BLOB", "NEW_BLOB", "UPDATE_isAsDesigned_PARAM_NODE_OPERATION",
   "UPDATE_ACTION_IRI", "UPDATE_OPERATION_IRI", "UPDATE_CONSTRUCTION_IRI",
   "REMOVED_PARAM_NODE_OPERATION", "ADD_PARAM_NODE_OPERATION",
   "NEW_LINK_ELEMENT_ELEMENT_TYPE", "NEW_LINK_CONSTR_OPERATION",
   "NEW_LINK_OPERATION_ACTION", "NEW_LINK_ACTION_ASBUILT", "NEW_LINK_NODE_TASK_TYPE"}

log_markers == log_markers_node_classes \cup other_log_markers

\* ------------------------------------------------------------------ log line parser
\* helpers.get_info_from_log.  The result is a Python list: either the flat list
\* of stripped fields (kind "flat", items) or [str_1, list_str] (kind "nested",
\* items = <<str_1>>, sub = list_str); kind "raise" when the unpacking of
\* ids.split(',', 1) or the index [1] after split('[', 1) fails.
ParseRaise == [kind |-> "raise", items |-> <<>>, sub |-> <<>>]

\* (...).split(',') of the text between the brackets: the items are not stripped
SubItems(inner) == Split(inner, ",")

ListInfo(str_1, br) ==
  IF Len(br) < 2 THEN ParseRaise
  ELSE [kind |-> "nested", items |-> <<str_1>>, sub |-> SubItems(Split(br[2], "]")[1])]

NestedInfo(parts) ==
  IF Len(parts) # 2 THEN ParseRaise
  ELSE ListInfo(parts[1], SplitOnce(Strip(parts[2]), "["))

FlatInfo(fields) ==
  [kind |-> "flat", items |-> [i \in 1..Len(fields) |-> Strip(fields[i])], sub |-> <<>>]

\* line[index + len(marker) + 1:].strip(), the marker being one symbol
IdsAfter(line, index) == Strip(SubSeq(line, index + 1 + 1, Len(line)))

get_info_from_log(line, marker) ==
  IF Has(line, "[") THEN NestedInfo(SplitOnce(IdsAfter(line, Find(line, marker)), ","))
  ELSE FlatInfo(Split(IdsAfter(line, Find(line, marker)), ","))

\* ------------------------------------------------------------------ session log writer
\* logging.Formatter('%(asctime)s : %(message)s'): the line of one record
Stamp == "ts"

FormatLine(stamp, msg) == <<stamp, " ", ":", " ">> \o msg

MsgHeadUnmarked(marker) == <<"DTP_API", " ", "-", " ", ":", " ">>

\* "DTP_API - MARKER: " + ...
MsgHead(marker) == <<"DTP_API", " ", "-", " ", marker, ":", " ">>

\* "DTP_API - MARKER: " + a
Msg1(marker, a) == MsgHead(marker) \o a

\* "DTP_API - MARKER: " + a + ', ' + b     (f"... {a}, {b}")
Msg2(marker, a, b) == MsgHead(marker) \o a \o <<",", " ">> \o b

\* f"DTP_API - MARKER: {a}, {lst}" with lst a Python list of str
MsgList(marker, a, lst) == MsgHead(marker) \o a \o <<",", " ">> \o PyReprList(lst)

MsgRemovedTwoFields(a, field, value) ==
  MsgHead("REMOVED_PARAM_NODE_OPERATION") \o a \o <<",", " ">> \o field \o <<" ">>

\* f"DTP_API - REMOVED_PARAM_NODE_OPERATION: {node_iri}, {field}, {previous_field_value} "
MsgRemoved(a, field, value) ==
  MsgHead("REMOVED_PARAM_NODE_OPERATION") \o a \o <<",", " ">> \o field \o <<",", " ">> \o value \o <<" ">>

\* ------------------------------------------------------------------ the store
\* The platform behind the HTTP API.  A node has fields (name/value pairs, one
\* value per name), outgoing edges and linked blobs.
Iris == {"n1", "n2"}
UuidOf == [n \in Iris |-> IF n = "n1" THEN "u1" ELSE "u2"]
BlobIds == {"b1"}
NoIri == "NoIri"
NoNode == [exists |-> FALSE, fields |-> {}, outE |-> {}, blobs |-> {}]
NoDump == [exists |-> FALSE, items |-> <<>>]

Edge(label, target) == [label |-> label, target |-> target]
Node(fields, outE, nblobs) == [exists |-> TRUE, fields |-> fields, outE |-> outE, blobs |-> nblobs]

\* one request: the endpoint, the addressed identifier and the payload
Req(url, key, fields, outE, blob) ==
  [url |-> url, key |-> key, fields |-> fields, outE |-> outE, blob |-> blob]

ReadUrls == {"get_find_elements"}

IsIri(key) == Len(key) = 1 /\ key[1] \in Iris
IriOfUuid(key) == IF Len(key) = 1 /\ \E n \in Iris : UuidOf[n] = key[1]
                  THEN CHOOSE n \in Iris : UuidOf[n] = key[1] ELSE NoIri
HasNode(w, key) == IsIri(key) /\ w.nodes[key[1]].exists
HasUuid(w, key) == IriOfUuid(key) # NoIri /\ w.nodes[IriOfUuid(key)].exists

SetFields(fs, new) == {p \in fs : \A q \in new : q[1] # p[1]} \cup new
UnsetFields(fs, new) == {p \in fs : \A q \in new : q[1] # p[1]}

\* whether the store can answer the request with an ok status
StoreCan(w, r) ==
  CASE r.url = "add_node" -> IsIri(r.key) /\ ~w.nodes[r.key[1]].exists
    [] r.url \in {"update_set", "update_unset", "delete_avatar_iri"} -> HasNode(w, r.key)
    [] r.url = "delete_avatar" -> HasUuid(w, r.key)
    [] r.url \in {"link_blob", "unlink_blob"} ->
         HasUuid(w, r.key) /\ Len(r.blob) = 1 /\ r.blob[1] \in w.blobs
    [] r.url = "delete_blob" -> Len(r.blob) = 1 /\ r.blob[1] \in w.blobs
    [] r.url = "send_blob" -> BlobIds \ w.blobs # {}
    [] OTHER -> TRUE

NewBlob(w) == CHOOSE b \in BlobIds : b \notin w.blobs

\* the store after it has answered the request with an ok status
StoreApply(w, r) ==
  CASE r.url = "add_node" ->
         [w EXCEPT !.nodes[r.key[1]] = Node(r.fields, r.outE, {})]
    [] r.url = "update_set" ->
         [w EXCEPT !.nodes[r.key[1]] =
            Node(SetFields(@.fields, r.fields), @.outE \cup r.outE, @.blobs)]
    [] r.url = "update_unset" ->
         [w EXCEPT !.nodes[r.key[1]] =
            Node(UnsetFields(@.fields, r.fields), @.outE \ r.outE, @.blobs)]
    [] r.url = "delete_avatar" -> [w EXCEPT !.nodes[IriOfUuid(r.key)] = NoNode]
    [] r.url = "delete_avatar_iri" -> [w EXCEPT !.nodes[r.key[1]] = NoNode]
    [] r.url = "link_blob" ->
         [w EXCEPT !.nodes[IriOfUuid(r.key)].blobs = @ \cup {r.blob[1]}]
    [] r.url = "unlink_blob" ->
         [w EXCEPT !.nodes[IriOfUuid(r.key)].blobs = @ \ {r.blob[1]}]
    [] r.url = "delete_blob" -> [w EXCEPT !.blobs = @ \ {r.blob[1]}]
    [] r.url = "send_blob" -> [w EXCEPT !.blobs = @ \cup {NewBlob(w)}]
    [] OTHER -> w

\* response.json() of get_find_elements: the items found for $iri / $uuid
FindItems(w, key) ==
  IF HasNode(w, key) THEN <<[iri |-> key[1], node |-> w.nodes[key[1]]]>>
  ELSE IF HasUuid(w, key) THEN <<[iri |-> IriOfUuid(key), node |-> w.nodes[IriOfUuid(key)]]>>
  ELSE <<>>

\* session.send(prepared): the request goes out; `up` is whether network and
\* store are healthy for this request
Answer(w1, r, ok) == [w |-> IF ok THEN StoreApply(w1, r) ELSE w1, ok |-> ok]

Send(w, r, up) ==
  Answer([w EXCEPT !.sent = Append(@, r), !.events = Append(@, "send")], r, up /\ StoreCan(w, r))

\* ------------------------------------------------------------------ mutation gateway
\* logger_global.info('HTTP request: ...') and logger_global.info('Response code: ...'):
\* w.events is what the gateway did, in order: its diagnostic records and the sends
LogRequest(w) == [w EXCEPT !.events = Append(@, "HTTP request")]

LogResponse(s) == [s EXCEPT !.w.events = Append(@, "Response code")]

\* str(response.status_code)
status_code(ok) == IF ok THEN "200" ELSE "500"

\* the message of the Exception post_general_request raises
ErrorText(code) ==
  <<"The response from the DTP is an error. Check the dev token and/or the domain. Status code: ",
    code>>

ReturnAnyResponse(s) == [w |-> s.w, raised |-> FALSE, response |-> "ok", error |-> None]

\* if response.ok: return response; else: logger_global.error(...); raise Exception(...)
RaiseUnlessOk(s) ==
  IF s.ok THEN [w |-> s.w, raised |-> FALSE, response |-> "ok", error |-> None]
  ELSE [w |-> [s.w EXCEPT !.events = Append(@, "error")], raised |-> TRUE, response |-> None,
        error |-> ErrorText(status_code(s.ok))]

\* DTPApi.post_general_request: an invalid URL raises before anything else; else
\* the request is always sent, and a response that is not ok raises
post_general_request(w, r, up) ==
  IF r.url = " "
  THEN [w |-> w, raised |-> TRUE, response |-> None,
        error |-> <<"Sorry, the URL is not a valid URL: ", r.url>>]
  ELSE RaiseUnlessOk(LogResponse(Send(LogRequest(w), r, up)))

\* the raw response of a request that was sent
RawResponse(s) == [w |-> s.w, response |-> IF s.ok THEN "ok" ELSE "fail"]

GuardedIgnoringSimulation(w, r, up) == RawResponse(LogResponse(Send(LogRequest(w), r, up)))

GuardedOkOnly(w, r, up) ==
  IF ~simulation_mode
  THEN [w |-> LogResponse(Send(LogRequest(w), r, up)).w,
        response |-> IF up /\ StoreCan(w, r) THEN "ok" ELSE None]
  ELSE [w |-> LogRequest(w), response |-> None]

GuardedLoggingAfterGuard(w, r, up) ==
  IF ~simulation_mode THEN RawResponse(LogResponse(Send(LogRequest(w), r, up)))
  ELSE [w |-> w, response |-> None]

\* DTPApi.general_guarded_request (post_guarded_request, put_guarded_request):
\* the request is logged; None in simulation mode, else the raw response
general_guarded_request(w, r, up) ==
  IF ~simulation_mode THEN RawResponse(LogResponse(Send(LogRequest(w), r, up)))
  ELSE [w |-> LogRequest(w), response |-> None]

\* self.session_logger.info(msg): one line to every file handler of the logger
SessionInfo(w, msg) ==
  [w EXCEPT !.files = [f \in DOMAIN @ |->
      IF f \in handlers THEN Append(@[f], FormatLine(Stamp, msg)) ELSE @[f]]]

\* the outcome of one call: the world after it, what it returned, and the
\* store's answer to its mutating request (None when none was sent)
Res(w, r, response) == [w |-> w, ret |-> r, resp |-> response]
Out(w, r) == Res(w, r, None)

\* the tail every mutating operation repeats after its guarded request:
\*   if not self.simulation_mode:
\*       if response.ok: session_logger.info(msg); return True
\*       else: return False
\*   return True
LoggedResultAlways(g, msg) ==
  IF g.response # "fail" THEN Res(SessionInfo(g.w, msg), "True", g.response)
  ELSE Res(g.w, "False", g.response)

LoggedResultOnFailure(g, msg) ==
  IF ~simulation_mode
  THEN Res(SessionInfo(g.w, msg), IF g.response = "ok" THEN "True" ELSE "False", g.response)
  ELSE Res(g.w, "True", g.response)

LoggedResult(g, msg) ==
  IF ~simulation_mode
  THEN IF g.response = "ok" THEN Res(SessionInfo(g.w, msg), "True", g.response)
       ELSE Res(g.w, "False", g.response)
  ELSE Res(g.w, "True", g.response)

PlainResultLogged(g) == LoggedResult(g, Msg1("DELETE_NODE_UUID", <<"n1">>))

\* the same tail in the unlink / delete operations, which write no session line
PlainResult(g) ==
  IF ~simulation_mode
  THEN IF g.response = "ok" THEN Res(g.w, "True", g.response) ELSE Res(g.w, "False", g.response)
  ELSE Res(g.w, "True", g.response)

\* ------------------------------------------------------------------ helpers of the operations
\* validators.url(x): every IRI of the model is a URL except the symbol "notaurl"
ValidUrl(x) == Len(x) = 1 /\ x[1] # "notaurl"

\* a Python list built from a JSON array of edges, in the store's order
RECURSIVE SeqOfSet(_)
SeqOfSet(S) == IF S = {} THEN <<>> ELSE LET x == CHOOSE y \in S : TRUE IN <<x>> \o SeqOfSet(S \ {x})

Range(q) == {q[i] : i \in 1..Len(q)}

\* os.path.join(node_log_dir, f"{key.rsplit('/')[-1]}.json"): one dump file per key
DumpPath(key) ==
  CASE key = <<"n1">> -> <<"n1.json">> [] key = <<"n2">> -> <<"n2.json">>
    [] key = <<"u1">> -> <<"u1.json">> [] key = <<"u2">> -> <<"u2.json">>
    [] key = <<"notaurl">> -> <<"notaurl.json">>
    [] OTHER -> <<"uuid4.json">>

DumpPaths == {"n1.json", "n2.json", "u1.json", "u2.json", "notaurl.json", "uuid4.json"}

\* with open(dump_path, 'w') as fp: json.dump(node_info, fp)
WriteDump(w, key, items) ==
  [w EXCEPT !.dumps[DumpPath(key)[1]] = [exists |-> TRUE, items |-> items]]

\* FetchAPI.fetch_node_with_iri / fetch_node_with_uuid: an unguarded read
WithItems(f, key) == [w |-> f.w, raised |-> f.raised, items |-> FindItems(f.w, key)]

fetch_node(w, key, up) ==
  WithItems(post_general_request(w, Req("get_find_elements", key, {}, {}, <<>>), up), key)

\* node_info = fetch_node_with_...(key); with open(dump_path, 'w'): json.dump(node_info):
\* the backup that update_*_node and delete_node_from_graph take before their request
Dumped(f, key) ==
  [w |-> IF f.raised THEN f.w ELSE WriteDump(f.w, key, f.items), raised |-> f.raised]

backup_node(w, key, up) == Dumped(fetch_node(w, key, up), key)

\* the i-th answer of the environment during one call
Up(e, i) == e[i]

\* the environments of a call that makes up to n requests: all answered, or the
\* k-th one fails
Env(n) == {[i \in 1..3 |-> i # k] : k \in 0..n}

\* ------------------------------------------------------------------ CreateAPI
\* create_asbuilt_node, create_defect_node, create_kpi_node_defectsperwork,
\* create_action_node, create_operation_node, create_construction_node,
\* create_kpi_zerodefectwork: the same body but for the payload and the marker
CreateMarker ==
  [create_asbuilt_node |-> "NEW_ELEMENT_IRI", create_defect_node |-> "NEW_DEFECT_IRI",
   create_kpi_node_defectsperwork |-> "NEW_KPI_IRI", create_action_node |-> "NEW_ACTION_IRI",
   create_operation_node |-> "NEW_OPERATION_IRI",
   create_construction_node |-> "NEW_CONSTRUCTION_IRI",
   create_kpi_zerodefectwork |-> "NEW_KPI_IRI"]

CreateOps == DOMAIN CreateMarker

create_node(w, op, iri, outE, e) ==
  IF ~ValidUrl(iri) THEN Out(w, Raise)
  ELSE LoggedResult(general_guarded_request(w, Req("add_node", iri, {}, outE, <<>>), Up(e, 1)),
                    Msg1(CreateMarker[op], iri))

\* ------------------------------------------------------------------ LinkAPI
link_node_element_to_blob(w, node_uuid, blob_uuid, e) ==
  LoggedResult(general_guarded_request(w, Req("link_blob", node_uuid, {}, {}, blob_uuid), Up(e, 1)),
               Msg2("NEW_LINK_ELEMENT_BLOB", node_uuid, blob_uuid))

\* link_node_element_to_defect, link_node_element_to_element_type,
\* link_node_schedule_to_constr, link_node_action_to_asbuilt: one edge, update_set
LinkLabel ==
  [link_node_element_to_defect |-> "hasGeometricDefect",
   link_node_element_to_element_type |-> "hasElementType",
   link_node_schedule_to_constr |-> "hasConstruction",
   link_node_action_to_asbuilt |-> "hasTarget"]

LinkMarker ==
  [link_node_element_to_defect |-> "NEW_LINK_ELEMENT_DEFECT",
   link_node_element_to_element_type |-> "NEW_LINK_ELEMENT_ELEMENT_TYPE",
   link_node_schedule_to_constr |-> "NEW_LINK_SCHEDULE_CONSTR",
   link_node_action_to_asbuilt |-> "NEW_LINK_ACTION_ASBUILT"]

LinkOps == DOMAIN LinkLabel

link_node_to_target(w, op, node_iri, target_iri, e) ==
  LoggedResult(general_guarded_request(
                 w, Req("update_set", node_iri, {}, {Edge(LinkLabel[op], target_iri)}, <<>>),
                 Up(e, 1)),
               Msg2(LinkMarker[op], node_iri, target_iri))

\* link_node_constr_to_operation, link_node_operation_to_action: the node is
\* fetched, the new edges are appended to its edges, and the line records
\* old_out_edges, the targets of the edges the node had before
ListLinkLabel ==
  [link_node_constr_to_operation |-> "hasOperation", link_node_operation_to_action |-> "hasAction"]

ListLinkMarker ==
  [link_node_constr_to_operation |-> "NEW_LINK_CONSTR_OPERATION",
   link_node_operation_to_action |-> "NEW_LINK_OPERATION_ACTION"]

ListLinkOps == DOMAIN ListLinkLabel

\* the targets of the edges the node already has
Targets(edges) == [i \in 1..Len(edges) |-> edges[i].target]

LinkEdges(w, already_existing_edges, op, node_iri, list_of_iri, e) ==
  LoggedResult(general_guarded_request(
                 w, Req("update_set", node_iri, {},
                        Range(already_existing_edges)
                          \cup {Edge(ListLinkLabel[op], list_of_iri[i]) : i \in 1..Len(list_of_iri)},
                        <<>>),
                 Up(e, 2)),
               MsgList(ListLinkMarker[op], node_iri, Targets(already_existing_edges)))

LinkFetched(f, op, node_iri, list_of_iri, e) ==
  IF f.raised THEN Out(f.w, Raise)
  ELSE IF f.items = <<>> THEN Out(f.w, Raise)
  ELSE LinkEdges(f.w, SeqOfSet(f.items[1].node.outE), op, node_iri, list_of_iri, e)

link_node_to_list(w, op, node_iri, list_of_iri, e) ==
  IF list_of_iri = <<>> THEN Out(w, Raise)
  ELSE LinkFetched(fetch_node(w, node_iri, Up(e, 1)), op, node_iri, list_of_iri, e)

\* ------------------------------------------------------------------ UpdateAPI
PyBool(b) == IF b THEN <<"True">> ELSE <<"False">>

update_asdesigned_param_node(w, node_iri, is_as_designed, e) ==
  LoggedResult(general_guarded_request(
                 w, Req("update_set", node_iri,
                        {<<(<<"isAsDesigned">>), PyBool(is_as_designed)>>}, {}, <<>>),
                 Up(e, 1)),
               Msg2("UPDATE_isAsDesigned_PARAM_NODE_OPERATION", node_iri, PyBool(is_as_designed)))

update_asbuilt_node(w, element_iri_uri, progress, e) ==
  IF ~ValidUrl(element_iri_uri) THEN Out(w, Raise)
  ELSE LoggedResult(general_guarded_request(
                      w, Req("update_set", element_iri_uri, {<<(<<"progress">>), progress>>},
                             {}, <<>>),
                      Up(e, 1)),
                    Msg1("UPDATE_ELEMENT_IRI", element_iri_uri))

\* update_action_node, update_operation_node: backup dump, then update_set
UpdateMarker ==
  [update_action_node |-> "UPDATE_ACTION_IRI", update_operation_node |-> "UPDATE_OPERATION_IRI"]

UpdateOps == DOMAIN UpdateMarker

UpdateBackedUp(b, op, node_iri, code, e) ==
  IF b.raised THEN Out(b.w, Raise)
  ELSE LoggedResult(general_guarded_request(
                      b.w, Req("update_set", node_iri, {<<(<<"classificationCode">>), code>>},
                               {}, <<>>),
                      Up(e, 2)),
                    Msg2(UpdateMarker[op], node_iri, DumpPath(node_iri)))

update_node(w, op, node_iri, code, e) ==
  UpdateBackedUp(backup_node(w, node_iri, Up(e, 1)), op, node_iri, code, e)

\* update_construction_node: the same, but the function ends after the
\* `if not self.simulation_mode:` block, so it returns None in simulation mode
ConstructionResult(g, constr_node_iri) ==
  IF ~simulation_mode
  THEN IF g.response = "ok"
       THEN Res(SessionInfo(g.w, Msg2("UPDATE_CONSTRUCTION_IRI", constr_node_iri,
                                      DumpPath(constr_node_iri))), "True", "ok")
       ELSE Res(g.w, "False", "fail")
  ELSE Res(g.w, None, None)

ConstructionBackedUp(b, constr_node_iri, workpkg_node_iri, e) ==
  IF b.raised THEN Out(b.w, Raise)
  ELSE ConstructionResult(
         general_guarded_request(
           b.w, Req("update_set", constr_node_iri, {},
                    {Edge("intentStatusRelation", workpkg_node_iri)}, <<>>),
           Up(e, 2)),
         constr_node_iri)

update_construction_node(w, constr_node_iri, workpkg_node_iri, e) ==
  ConstructionBackedUp(backup_node(w, constr_node_iri, Up(e, 1)),
                       constr_node_iri, workpkg_node_iri, e)

delete_param_in_node(w, node_iri, field, previous_field_value, is_revert_session, e) ==
  IF ~is_revert_session /\ previous_field_value = <<None>> THEN Out(w, Raise)
  ELSE LoggedResult(general_guarded_request(
                      w, Req("update_unset", node_iri, {<<field, <<"delete">>>>}, {}, <<>>),
                      Up(e, 1)),
                    MsgRemoved(node_iri, field, previous_field_value))

add_param_in_node(w, node_iri, field, field_value, e) ==
  LoggedResult(general_guarded_request(
                 w, Req("update_set", node_iri, {<<field, field_value>>}, {}, <<>>), Up(e, 1)),
               Msg2("ADD_PARAM_NODE_OPERATION", node_iri, field))

\* ------------------------------------------------------------------ SendAPI
\* send_blob_as_text_get_uuid: its own send, guarded by simulation_mode; raises
\* unless the status is 201; uuid.uuid4() in simulation mode
BlobSent(s, uuid) ==
  IF s.ok THEN Res(SessionInfo(s.w, Msg1("NEW_BLOB", <<uuid>>)), uuid, "ok")
  ELSE Res(s.w, Raise, "fail")

send_blob_as_text_get_uuid(w, e) ==
  IF ~simulation_mode
  THEN BlobSent(Send(w, Req("send_blob", <<>>, {}, {}, <<>>), Up(e, 1)), NewBlob(w))
  ELSE Out(w, "uuid4")

\* send_blob_as_image_get_uuid asks DTP_CONFIG.get_api_uri, which DTPConfig does
\* not define (it defines get_api_url): the call raises before anything is sent
send_blob_as_image_get_uuid(w, e) == Out(w, Raise)

\* ------------------------------------------------------------------ FetchAPI.get_uuid_for_iri
\* guarded by simulation_mode; raises on a malformed IRI, on a non-ok response
\* and (IndexError) when no node has the IRI
UuidFound(s, iri) ==
  IF s.ok /\ FindItems(s.w, iri) # <<>> THEN Out(s.w, UuidOf[FindItems(s.w, iri)[1].iri])
  ELSE Out(s.w, Raise)

get_uuid_for_iri(w, iri, e) ==
  IF ~ValidUrl(iri) THEN Out(w, Raise)
  ELSE IF ~simulation_mode
  THEN UuidFound(Send(w, Req("get_find_elements", iri, {}, {}, <<>>), Up(e, 1)), iri)
  ELSE Out(w, "uuid4")

\* ------------------------------------------------------------------ RevertAPI
\* delete_node_from_graph: unguarded fetch and dump first, then its own DELETE,
\* guarded by simulation_mode; a successful delete writes a DELETE_NODE_UUID line
DeleteSent(s, node_uuid) ==
  IF s.ok
  THEN Res(SessionInfo(s.w, Msg2("DELETE_NODE_UUID", node_uuid, DumpPath(node_uuid))), "True", "ok")
  ELSE Res(s.w, "False", "fail")

DeleteBackedUp(b, node_uuid, e) ==
  IF b.raised THEN Out(b.w, Raise)
  ELSE IF ~simulation_mode
  THEN DeleteSent(Send(b.w, Req("delete_avatar", node_uuid, {}, {}, <<>>), Up(e, 3)), node_uuid)
  ELSE Out(b.w, "True")

delete_node_from_graph(w, node_uuid, e) ==
  DeleteBackedUp(backup_node(w, node_uuid, Up(e, 2)), node_uuid, e)

\* delete_node_from_graph_with_iri: the same backup, the IRI validated after it,
\* and the delete goes through post_guarded_request; the line is DELETE_NODE_IRI
DeleteIriBackedUp(b, node_iri, e) ==
  IF b.raised THEN Out(b.w, Raise)
  ELSE IF ~ValidUrl(node_iri) THEN Out(b.w, Raise)
  ELSE LoggedResult(general_guarded_request(
                      b.w, Req("delete_avatar_iri", node_iri, {}, {}, <<>>), Up(e, 2)),
                    Msg2("DELETE_NODE_IRI", node_iri, DumpPath(node_iri)))

delete_node_from_graph_with_iri(w, node_iri, e) ==
  DeleteIriBackedUp(backup_node(w, node_iri, Up(e, 1)), node_iri, e)

\* unlink_node_from_blob, delete_blob_from_platform: their own send, guarded
DirectSent(s) == Res(s.w, IF s.ok THEN "True" ELSE "False", IF s.ok THEN "ok" ELSE "fail")

DirectResult(w, r, up) == IF ~simulation_mode THEN DirectSent(Send(w, r, up)) ELSE Out(w, "True")

unlink_node_from_blob(w, node_uuid, blob_uuid, e) ==
  DirectResult(w, Req("unlink_blob", node_uuid, {}, {}, blob_uuid), Up(e, 1))

delete_blob_from_platform(w, blob_uuid, e) ==
  DirectResult(w, Req("delete_blob", <<>>, {}, {}, blob_uuid), Up(e, 1))

\* unlink_element_type, unlink_task_type, unlink_action_asbuilt: one edge, update_unset
unlink_edge(w, label, node_iri, target_iri, e) ==
  PlainResult(general_guarded_request(
    w, Req("update_unset", node_iri, {}, {Edge(label, target_iri)}, <<>>), Up(e, 1)))

\* for x in list_of_iri: a list yields its items, a str its characters
Iterate(v) == IF v.t = "list" THEN v.v ELSE [i \in 1..Len(v.v) |-> <<v.v[i]>>]

\* unlink_constr_op, unlink_operation_action: ONE update_unset with every edge
EdgesTo(label, its) == {Edge(label, its[i]) : i \in 1..Len(its)}

unlink_list(w, label, node_iri, list_of_iri, e) ==
  PlainResult(general_guarded_request(
    w, Req("update_unset", node_iri, {}, EdgesTo(label, Iterate(list_of_iri)), <<>>), Up(e, 1)))

delete_asdesigned_param_node(w, node_iri, e) ==
  PlainResult(general_guarded_request(
    w, Req("update_unset", node_iri, {<<(<<"isAsDesigned">>), <<"delete">>>>}, {}, <<>>), Up(e, 1)))

\* revert_node_update: open(dump_path) and node_info['items'][0] raise when the
\* dump is missing or empty; the snapshot is put to update_set
revert_node_update(w, node_iri, dump_path, e) ==
  IF ~(Len(dump_path) = 1 /\ dump_path[1] \in DumpPaths /\ w.dumps[dump_path[1]].exists)
  THEN Out(w, Raise)
  ELSE LET node_info == w.dumps[dump_path[1]]
       IN IF node_info.items = <<>> THEN Out(w, Raise)
          ELSE LET payload == node_info.items[1]
                   r == Req("update_set", <<payload.iri>>, payload.node.fields,
                            payload.node.outE, <<>>)
               IN PlainResult(general_guarded_request(w, r, Up(e, 1)))

\* ------------------------------------------------------------------ revert_last_session
\* FileReadBackwards(session_file): the line numbers in the order they are read
ReadForwards(lines) == [k \in 1..Len(lines) |-> k]

FileReadBackwards(lines) == [k \in 1..Len(lines) |-> Len(lines) + 1 - k]

\* the if / elif chain tests the markers in this order
MarkerOrder ==
  <<"NEW_LINK_ELEMENT_BLOB", "NEW_BLOB", "UPDATE_isAsDesigned_PARAM_NODE_OPERATION",
    "UPDATE_ACTION_IRI", "UPDATE_OPERATION_IRI", "UPDATE_CONSTRUCTION_IRI",
    "REMOVED_PARAM_NODE_OPERATION", "ADD_PARAM_NODE_OPERATION",
    "NEW_LINK_ELEMENT_ELEMENT_TYPE", "NEW_LINK_CONSTR_OPERATION",
    "NEW_LINK_OPERATION_ACTION", "NEW_LINK_ACTION_ASBUILT", "NEW_LINK_NODE_TASK_TYPE">>

\* next(substring for substring in self.log_markers_node_classes.values() if substring in line)
NodeClassOrder ==
  <<"NEW_ELEMENT_IRI", "NEW_DEFECT_IRI", "NEW_ACTION_IRI", "NEW_OPERATION_IRI",
    "NEW_CONSTRUCTION_IRI", "NEW_KPI_IRI">>

LastIn(order, line) ==
  IF \E i \in 1..Len(order) : Has(line, order[i])
  THEN order[CHOOSE i \in 1..Len(order) :
               Has(line, order[i]) /\ \A j \in (i + 1)..Len(order) : ~Has(line, order[j])]
  ELSE None

FirstIn(order, line) ==
  IF \E i \in 1..Len(order) : Has(line, order[i])
  THEN order[CHOOSE i \in 1..Len(order) :
               Has(line, order[i]) /\ \A j \in 1..(i - 1) : ~Has(line, order[j])]
  ELSE None

\* the elements of the Python list get_info_from_log returned
Values(p) ==
  IF p.kind = "flat" THEN [i \in 1..Len(p.items) |-> [t |-> "str", v |-> p.items[i]]]
  ELSE IF p.kind = "nested" THEN <<[t |-> "str", v |-> p.items[1]], [t |-> "list", v |-> p.sub]>>
  ELSE <<>>

\* a value used where the operation expects a str; a list is sent as it is
\* rendered in the JSON payload
Scalar(x) == IF x.t = "str" THEN x.v ELSE PyReprList(x.v)

\* bool(result) of what an operation returned
Truthy(r) == r \notin {"False", None, Raise}

\* the outcome of one loop iteration: status "ok" (the end of the body is
\* reached), "continue" (the line is skipped) or "raise" (an exception leaves
\* revert_last_session); inc is the counter increment; called names the
\* compensation that was invoked, success whether it returned a true value
Step(w, status, inc, called) ==
  [w |-> w, status |-> status, inc |-> inc, called |-> called, success |-> FALSE]

\* a compensation was called with counter += 1 after it (or, for at = "before",
\* before it; or never, for at = "never")
AfterCall(o, called, at) ==
  IF o.ret = Raise THEN Step(o.w, "raise", IF at = "before" THEN 1 ELSE 0, called)
  ELSE [Step(o.w, "ok", IF at = "never" THEN 0 ELSE 1, called) EXCEPT !.success = Truthy(o.ret)]

\* s.find(sub) + 1 for a text sub: the first position where sub occurs, 0 when absent
FindText(s, sub) ==
  IF \E i \in 1..Len(s) : SubSeq(s, i, i + Len(sub) - 1) = sub
  THEN CHOOSE i \in 1..Len(s) :
         /\ SubSeq(s, i, i + Len(sub) - 1) = sub
         /\ \A j \in 1..(i - 1) : SubSeq(s, j, j + Len(sub) - 1) # sub
  ELSE 0

\* msg_date = line[0: line.find(' : ')]; find gives -1 when ' : ' is absent, and
\* the slice then drops the last character
msg_date(line) ==
  IF FindText(line, <<" ", ":", " ">>) = 0 THEN SubSeq(line, 1, Len(line) - 1)
  ELSE SubSeq(line, 1, FindText(line, <<" ", ":", " ">>) - 1)

\* logger_global.error('Error at the session revert for entry at : ' + msg_date + ...)
ErrorRecord(date) == [rec |-> "Error at the session revert for entry at", msg_date |-> date]

\* logger_global.info('The session started at: ' + msg_date + ', has been reverted.')
RevertedRecord(date) == [rec |-> "has been reverted", msg_date |-> date]

DeleteFoundUnlogged(u, date, e) ==
  IF u.ret = Raise THEN Step(u.w, "continue", 0, "get_uuid_for_iri")
  ELSE AfterCall(delete_node_from_graph(u.w, <<u.ret>>, e), "delete_node_from_graph", "after")

\* try: node_uuid = self.get_uuid_for_iri(node_iri)
\* except Exception: logger_global.error(...); continue
\* self.delete_node_from_graph(node_uuid); counter = counter + 1
DeleteFound(u, date, e) ==
  IF u.ret = Raise
  THEN Step([u.w EXCEPT !.diag = Append(@, ErrorRecord(date))], "continue", 0, "get_uuid_for_iri")
  ELSE AfterCall(delete_node_from_graph(u.w, <<u.ret>>, e), "delete_node_from_graph", "after")

RevertNodeClass(w, line, node_class, e) ==
  IF node_class = None THEN Step(w, "continue", 0, None)
  ELSE DeleteFound(get_uuid_for_iri(w, IdsAfter(line, Find(line, node_class)), e),
                   msg_date(line), e)

\* the branch of the if / elif chain that marker m selects, applied to the
\* list v that get_info_from_log returned
Dispatch(w, m, v, e) ==
  CASE m = "NEW_LINK_ELEMENT_BLOB" ->
       IF Len(v) # 2 THEN Step(w, "raise", 0, None)
       ELSE AfterCall(unlink_node_from_blob(w, Scalar(v[1]), Scalar(v[2]), e),
                      "unlink_node_from_blob", "before")
  [] m = "NEW_BLOB" ->
       IF Len(v) < 1 THEN Step(w, "raise", 0, None)
       ELSE AfterCall(delete_blob_from_platform(w, Scalar(v[1]), e),
                      "delete_blob_from_platform", "after")
  [] m = "UPDATE_isAsDesigned_PARAM_NODE_OPERATION" ->
       IF Len(v) < 1 THEN Step(w, "raise", 0, None)
       ELSE AfterCall(delete_asdesigned_param_node(w, Scalar(v[1]), e),
                      "delete_asdesigned_param_node", "after")
  [] m = "UPDATE_ACTION_IRI" ->
       IF Len(v) # 2 THEN Step(w, "raise", 0, None)
       ELSE AfterCall(revert_node_update(w, Scalar(v[1]), Scalar(v[2]), e),
                      "revert_node_update", "never")
  [] m \in {"UPDATE_OPERATION_IRI", "UPDATE_CONSTRUCTION_IRI"} ->
       IF Len(v) # 2 THEN Step(w, "raise", 0, None)
       ELSE AfterCall(revert_node_update(w, Scalar(v[1]), Scalar(v[2]), e),
                      "revert_node_update", "after")
  [] m = "REMOVED_PARAM_NODE_OPERATION" ->
       IF Len(v) # 3 THEN Step(w, "raise", 0, None)
       ELSE AfterCall(add_param_in_node(w, Scalar(v[1]), Scalar(v[2]), Scalar(v[3]), e),
                      "add_param_in_node", "after")
  [] m = "ADD_PARAM_NODE_OPERATION" ->
       IF Len(v) # 2 THEN Step(w, "raise", 0, None)
       ELSE AfterCall(delete_param_in_node(w, Scalar(v[1]), Scalar(v[2]), <<None>>, TRUE, e),
                      "delete_param_in_node", "after")
  [] m = "NEW_LINK_ELEMENT_ELEMENT_TYPE" ->
       IF Len(v) # 2 THEN Step(w, "raise", 0, None)
       ELSE AfterCall(unlink_edge(w, "hasElementType", Scalar(v[1]), Scalar(v[2]), e),
                      "unlink_element_type", "after")
  [] m = "NEW_LINK_CONSTR_OPERATION" ->
       IF Len(v) # 2 THEN Step(w, "raise", 0, None)
       ELSE AfterCall(unlink_list(w, "hasOperation", Scalar(v[1]), v[2], e),
                      "unlink_constr_op", "after")
  [] m = "NEW_LINK_OPERATION_ACTION" ->
       IF Len(v) # 2 THEN Step(w, "raise", 0, None)
       ELSE AfterCall(unlink_list(w, "hasAction", Scalar(v[1]), v[2], e),
                      "unlink_operation_action", "never")
  [] m = "NEW_LINK_ACTION_ASBUILT" ->
       IF Len(v) # 2 THEN Step(w, "raise", 0, None)
       ELSE AfterCall(unlink_edge(w, "hasTarget", Scalar(v[1]), Scalar(v[2]), e),
                      "unlink_action_asbuilt", "never")
  [] OTHER ->
       IF Len(v) # 2 THEN Step(w, "raise", 0, None)
       ELSE AfterCall(unlink_edge(w, "hasTaskType", Scalar(v[1]), Scalar(v[2]), e),
                      "unlink_task_type", "after")

\* whether the list v has the shape the branch of marker m destructures: [0] is
\* taken of it, or it is unpacked into two or three names
Unpacks(m, v) ==
  CASE m \in {"NEW_BLOB", "UPDATE_isAsDesigned_PARAM_NODE_OPERATION"} -> Len(v) >= 1
    [] m = "REMOVED_PARAM_NODE_OPERATION" -> Len(v) = 3
    [] OTHER -> Len(v) = 2

RevertLineWith(w, line, m, e) ==
  IF m = None THEN RevertNodeClass(w, line, FirstIn(NodeClassOrder, line), e)
  ELSE Dispatch(w, m, Values(get_info_from_log(line, m)), e)

\* the last statement of the loop body, which `continue` and an exception skip
Confirmed(st, date) ==
  IF st.status = "ok" THEN [st EXCEPT !.w.diag = Append(@, RevertedRecord(date))] ELSE st

RevertLine(w, line, e) ==
  Confirmed(RevertLineWith(w, line, FirstIn(MarkerOrder, line), e), msg_date(line))

\* ------------------------------------------------------------------ the session
SessionFile == "f1"

\* a second session log path, handed to init_logger later in the process
NewFile == "f2"

\* the store before the session: n1 exists, with or without an edge; n2 does not
InitNodes ==
  {[n \in Iris |-> IF n = "n1"
                   THEN Node({<<(<<"p1">>), <<"v0">>>>}, E, {})
                   ELSE NoNode] : E \in {{}, {Edge("hasOperation", <<"e0">>)}}}

Off == [pc |-> "off"]
RvIdle == [pc |-> "idle", lines |-> <<>>, order |-> <<>>, k |-> 0, counter |-> 0,
           dispatched |-> <<>>, called |-> <<>>, log |-> <<>>, succeeded |-> 0]

\* operations that write a session line when they succeed, and those among them
\* whose marker revert_last_session recognizes
AllTargets == <<"op1", "op2", "op3", "op4">>
Lists == {SubSeq([i \in 1..Len(AllTargets) |-> <<AllTargets[i]>>], 1, k) : k \in 0..MaxList}

World ==
  [nodes |-> nodes, blobs |-> blobs, dumps |-> dumps, files |-> files, sent |-> <<>>,
   events |-> <<>>, diag |-> <<>>]

Init ==
  /\ simulation_mode \in BOOLEAN
  /\ nodes \in InitNodes
  /\ blobs = {}
  /\ dumps = [d \in DumpPaths |-> NoDump]
  /\ files = [f \in {SessionFile, NewFile} |-> <<>>]
  /\ handlers = {SessionFile}
  /\ sent = <<>>
  /\ ret = None
  /\ last = [op |-> "__init__", kind |-> "none", sim |-> simulation_mode, resp |-> None,
             lines |-> 0, oks |-> 0, clean |-> TRUE]
  /\ calls = 0
  /\ rv = RvIdle
  /\ pre_session = [nodes |-> nodes, blobs |-> blobs]
  /\ px = Off
  /\ pg = Off
  /\ rs = Off
  /\ gw = Off

\* one API call returns: its effects and the record of the call.  kind is
\* "inverse" for a logging operation whose marker the revert recognizes,
\* "logged" for another logging operation, "plain" for one that writes no line
Commit(o, op, kind) ==
  /\ rv.pc = "idle"
  /\ calls < MaxCalls
  /\ nodes' = o.w.nodes
  /\ blobs' = o.w.blobs
  /\ dumps' = o.w.dumps
  /\ files' = o.w.files
  /\ sent' = o.w.sent
  /\ ret' = o.ret
  /\ last' = [op |-> op, kind |-> kind, sim |-> simulation_mode, resp |-> o.resp,
              lines |-> Len(o.w.files[SessionFile]) - Len(files[SessionFile]),
              oks |-> last.oks + (IF o.resp = "ok" /\ kind # "plain" THEN 1 ELSE 0),
              clean |-> last.clean /\ ~simulation_mode /\ Truthy(o.ret) /\ kind = "inverse"]
  /\ calls' = calls + 1
  /\ UNCHANGED <<simulation_mode, handlers, rv, pre_session, px, pg, rs, gw>>

\* DTPApi.set_simulation_mode
set_simulation_mode ==
  /\ rv.pc = "idle"
  /\ calls < MaxCalls
  /\ \E flag \in BOOLEAN :
       /\ flag # simulation_mode
       /\ simulation_mode' = flag
       /\ ret' = IF simulation_mode THEN "True" ELSE "False"
  /\ sent' = <<>>
  /\ last' = [last EXCEPT !.op = "set_simulation_mode", !.kind = "none", !.resp = None,
                          !.lines = 0]
  /\ UNCHANGED <<nodes, blobs, dumps, files, handlers, calls, rv, pre_session, px, pg, rs, gw>>

\* if len(session_file.strip()) != 0: handler = logging.FileHandler(session_file);
\* self.session_logger = logging.getLogger('session_DTP'); ...addHandler(handler):
\* the logger is the one of the process, the handlers it has stay
InitLoggerHandlers(session_file) ==
  IF session_file = " " THEN handlers ELSE handlers \cup {session_file}

\* DTPApi.init_logger(session_file), called with a new path or a blank one
init_logger ==
  /\ rv.pc = "idle"
  /\ calls < MaxCalls
  /\ \E session_file \in {NewFile, " "} :
       /\ session_file \notin handlers
       /\ handlers' = InitLoggerHandlers(session_file)
       /\ last' = [last EXCEPT !.op = "init_logger", !.kind = "none", !.resp = session_file,
                               !.lines = 0]
  /\ sent' = <<>>
  /\ ret' = None
  /\ calls' = calls + 1
  /\ UNCHANGED <<simulation_mode, nodes, blobs, dumps, files, rv, pre_session, px, pg, rs, gw>>

Create ==
  \E op \in CreateOps, iri \in Iris, e \in Env(1) :
    Commit(create_node(World, op, <<iri>>, {}, e), op, "inverse")

LinkBlob ==
  \E e \in Env(1) :
    Commit(link_node_element_to_blob(World, <<"u1">>, <<"b1">>, e),
           "link_node_element_to_blob", "inverse")

LinkTarget ==
  \E op \in LinkOps, e \in Env(1) :
    Commit(link_node_to_target(World, op, <<"n1">>, <<"t1">>, e), op,
           IF LinkMarker[op] \in log_markers THEN "inverse" ELSE "logged")

LinkList ==
  \E op \in ListLinkOps, lst \in Lists, e \in Env(2) :
    Commit(link_node_to_list(World, op, <<"n1">>, lst, e), op, "inverse")

UpdateAsDesigned ==
  \E flag \in BOOLEAN, e \in Env(1) :
    Commit(update_asdesigned_param_node(World, <<"n1">>, flag, e),
           "update_asdesigned_param_node", "inverse")

UpdateAsBuilt ==
  \E e \in Env(1) :
    Commit(update_asbuilt_node(World, <<"n1">>, <<"v1">>, e), "update_asbuilt_node", "logged")

UpdateNode ==
  \E op \in UpdateOps, e \in Env(2) :
    Commit(update_node(World, op, <<"n1">>, <<"v1">>, e), op, "inverse")

UpdateConstruction ==
  \E e \in Env(2) :
    Commit(update_construction_node(World, <<"n1">>, <<"t1">>, e),
           "update_construction_node", "inverse")

DeleteParam ==
  \E prev \in {<<"v0">>, <<None>>}, e \in Env(1) :
    Commit(delete_param_in_node(World, <<"n1">>, <<"p1">>, prev, FALSE, e),
           "delete_param_in_node", "inverse")

AddParam ==
  \E field \in {<<"p1">>, <<"p2">>}, e \in Env(1) :
    Commit(add_param_in_node(World, <<"n1">>, field, <<"v1">>, e),
           "add_param_in_node", "inverse")

SendBlobText ==
  \E e \in Env(1) :
    Commit(send_blob_as_text_get_uuid(World, e), "send_blob_as_text_get_uuid", "inverse")

SendBlobImage ==
  \E e \in Env(1) :
    Commit(send_blob_as_image_get_uuid(World, e), "send_blob_as_image_get_uuid", "inverse")

\* the compensating operations called directly
Compensate ==
  \E e \in Env(1), op \in {"unlink_node_from_blob", "delete_blob_from_platform",
                           "unlink_element_type", "unlink_task_type", "unlink_action_asbuilt",
                           "unlink_constr_op", "unlink_operation_action",
                           "delete_asdesigned_param_node", "revert_node_update",
                           "get_uuid_for_iri"} :
    Commit(CASE op = "unlink_node_from_blob" -> unlink_node_from_blob(World, <<"u1">>, <<"b1">>, e)
             [] op = "delete_blob_from_platform" -> delete_blob_from_platform(World, <<"b1">>, e)
             [] op = "unlink_element_type" -> unlink_edge(World, "hasElementType", <<"n1">>, <<"t1">>, e)
             [] op = "unlink_task_type" -> unlink_edge(World, "hasTaskType", <<"n1">>, <<"t1">>, e)
             [] op = "unlink_action_asbuilt" -> unlink_edge(World, "hasTarget", <<"n1">>, <<"t1">>, e)
             [] op = "unlink_constr_op" ->
                  unlink_list(World, "hasOperation", <<"n1">>, [t |-> "list", v |-> <<(<<"e0">>)>>], e)
             [] op = "unlink_operation_action" ->
                  unlink_list(World, "hasAction", <<"n1">>, [t |-> "list", v |-> <<(<<"e0">>)>>], e)
             [] op = "delete_asdesigned_param_node" -> delete_asdesigned_param_node(World, <<"n1">>, e)
             [] op = "revert_node_update" -> revert_node_update(World, <<"n1">>, <<"n1.json">>, e)
             [] OTHER -> get_uuid_for_iri(World, <<"n1">>, e),
           op, "plain")

\* delete_node_from_graph called directly: its fetch is the 2nd, its DELETE the
\* 3rd request of the node-class branch
DeleteNode ==
  \E e \in {x \in Env(3) : x[1]} :
    Commit(delete_node_from_graph(World, <<"u1">>, e), "delete_node_from_graph", "logged")

DeleteNodeIri ==
  \E e \in Env(2) :
    Commit(delete_node_from_graph_with_iri(World, <<"n1">>, e),
           "delete_node_from_graph_with_iri", "logged")

\* the operations that check an identifier with validators.url, called with a
\* value that is not a URL
ValidatingOps ==
  CreateOps \cup {"update_asbuilt_node", "get_uuid_for_iri", "delete_node_from_graph_with_iri"}

CallMalformed ==
  \E op \in ValidatingOps, e \in Env(2) :
    Commit(CASE op \in CreateOps -> create_node(World, op, <<"notaurl">>, {}, e)
             [] op = "update_asbuilt_node" -> update_asbuilt_node(World, <<"notaurl">>, <<"v1">>, e)
             [] op = "get_uuid_for_iri" -> get_uuid_for_iri(World, <<"notaurl">>, e)
             [] OTHER -> delete_node_from_graph_with_iri(World, <<"notaurl">>, e),
           op, "malformed")

\* revert_last_session(session_file) is entered: the file is read from its end
BeginRevert(session_file) ==
  /\ rv.pc = "idle"
  /\ LET lines == files[session_file]
     IN rv' = [pc |-> IF lines = <<>> THEN "done" ELSE "run", lines |-> lines,
               order |-> FileReadBackwards(lines), k |-> 1, counter |-> 0,
               dispatched |-> <<>>, called |-> <<>>, log |-> <<>>, succeeded |-> 0]
  /\ sent' = <<>>
  /\ last' = [last EXCEPT !.op = "revert_last_session", !.kind = "none",
                          !.sim = simulation_mode, !.resp = None, !.lines = 0]
  /\ UNCHANGED <<simulation_mode, nodes, blobs, dumps, files, handlers, ret, calls,
                 pre_session, px, pg, gw>>

\* the session's own log is reverted, in the process that wrote it
RevertStart == calls >= 1 /\ BeginRevert(SessionFile) /\ UNCHANGED rs

\* one iteration of `for line in tqdm(frb)`
IterationDone(st, ln, e) ==
  /\ nodes' = st.w.nodes
  /\ blobs' = st.w.blobs
  /\ dumps' = st.w.dumps
  /\ files' = st.w.files
  /\ sent' = st.w.sent
  /\ rv' = [rv EXCEPT
              !.pc = IF st.status = "raise" THEN "raised"
                     ELSE IF rv.k = Len(rv.order) THEN "done" ELSE "run",
              !.k = @ + 1,
              !.counter = @ + st.inc,
              !.log = @ \o st.w.diag,
              !.succeeded = @ + (IF st.success THEN 1 ELSE 0),
              !.dispatched = IF st.called = None THEN @ ELSE Append(@, ln),
              !.called = IF st.called = None THEN @ ELSE Append(@, st.called)]
  /\ last' = [last EXCEPT !.clean = @ /\ e = [i \in 1..3 |-> TRUE],
                          !.lines = @ + Len(st.w.files[SessionFile]) - Len(files[SessionFile])]
  /\ ret' = IF st.status = "raise" THEN Raise ELSE None
  /\ UNCHANGED <<simulation_mode, handlers, calls, pre_session, px, pg, rs, gw>>

RevertStep ==
  /\ rv.pc = "run"
  /\ \E e \in Env(3) :
       IterationDone(RevertLine([World EXCEPT !.sent = sent], rv.lines[rv.order[rv.k]], e),
                     rv.order[rv.k], e)

Next ==
  \/ set_simulation_mode
  \/ Create
  \/ LinkBlob
  \/ LinkTarget
  \/ LinkList
  \/ UpdateAsDesigned
  \/ UpdateAsBuilt
  \/ UpdateNode
  \/ UpdateConstruction
  \/ DeleteParam
  \/ AddParam
  \/ SendBlobText
  \/ SendBlobImage
  \/ Compensate
  \/ DeleteNode
  \/ DeleteNodeIri
  \/ CallMalformed
  \/ RevertStart
  \/ RevertStep

Spec == Init /\ [][Next]_vars

\* ------------------------------------------------------------------ rebinding the session logger
\* a process that calls init_logger again and goes on mutating
NextLogger ==
  \/ init_logger
  \/ set_simulation_mode
  \/ Create
  \/ AddParam
  \/ UpdateNode
  \/ DeleteNodeIri

SpecLogger == Init /\ [][NextLogger]_vars

\* ------------------------------------------------------------------ revert of a given log file
\* revert_last_session(path) in a fresh process: the file "f0" of an earlier
\* session is reverted while the logger is bound to the new session file
OldFile == "f0"
Stamps == <<"t1", "t2", "t3", "t4", "t5">>

\* 'constrIRI, [op1, op2]' after the marker
MsgBracket(marker, a, b, c) ==
  MsgHead(marker) \o a \o <<",", " ", "[">> \o b \o <<",", " ">> \o c \o <<"]">>

InputMessages ==
  {Msg1("NEW_ELEMENT_IRI", <<"n1">>),
   Msg1("NEW_ELEMENT_IRI", <<"n2">>),
   Msg1("NEW_KPI_IRI", <<"n3">>),
   Msg1("NEW_LINK_ELEMENT_BLOB", <<"u1">>),
   Msg2("NEW_LINK_ELEMENT_BLOB", <<"u1">>, <<"b1">>),
   MsgBracket("NEW_LINK_CONSTR_OPERATION", <<"n1">>, <<"op1">>, <<"op2">>),
   MsgList("NEW_LINK_OPERATION_ACTION", <<"n1">>, <<(<<"op1">>), <<"op2">>>>),
   Msg2("UPDATE_ACTION_IRI", <<"n1">>, <<"n1.json">>),
   Msg1("UPDATE_ELEMENT_IRI", <<"n1">>),
   Msg2("NEW_BLOB", <<"b1">>, <<"NEW_ELEMENT_IRI">>),
   Msg2("NEW_LINK_ELEMENT_ELEMENT_TYPE", <<"n1">>, <<"NEW_BLOB">>)}

InputLogs ==
  {[i \in 1..Len(msgs) |-> FormatLine(Stamps[i], msgs[i])] :
     msgs \in UNION {[1..n -> InputMessages] : n \in 0..MaxLines}}

\* the store the old session left: both nodes, n1 linked to op1 and op2 and to b1
OldStore ==
  [n \in Iris |-> IF n = "n1"
                  THEN Node({<<(<<"p1">>), <<"v1">>>>},
                            {Edge("hasOperation", <<"op1">>), Edge("hasOperation", <<"op2">>),
                             Edge("hasAction", <<"op1">>), Edge("hasAction", <<"op2">>)}, {"b1"})
                  ELSE Node({}, {}, {})]

OldDump == [iri |-> "n1", node |-> Node({<<(<<"p1">>), <<"v0">>>>}, {}, {})]

InitRevert ==
  /\ simulation_mode \in BOOLEAN
  /\ nodes = OldStore
  /\ blobs = {"b1"}
  /\ dumps = [d \in DumpPaths |-> IF d = "n1.json" THEN [exists |-> TRUE, items |-> <<OldDump>>]
                                   ELSE NoDump]
  /\ files \in {[f \in {OldFile, SessionFile} |-> IF f = OldFile THEN lg ELSE <<>>] : lg \in InputLogs}
  /\ handlers = {SessionFile}
  /\ sent = <<>>
  /\ ret = None
  /\ last = [op |-> "__init__", kind |-> "none", sim |-> simulation_mode, resp |-> None,
             lines |-> 0, oks |-> 0, clean |-> TRUE]
  /\ calls = 0
  /\ rv = RvIdle
  /\ pre_session = [nodes |-> nodes, blobs |-> blobs]
  /\ px = Off
  /\ pg = Off
  /\ rs = Off
  /\ gw = Off

RevertOld == BeginRevert(OldFile) /\ UNCHANGED rs

NextRevert ==
  \/ RevertOld
  \/ RevertStep

SpecRevert == InitRevert /\ [][NextRevert]_vars

\* ------------------------------------------------------------------ writer, then parser
\* One logging operation writes its line to the session file and
\* get_info_from_log reads that line back with the operation's marker.
FlatWriters == {"link_node_element_to_element_type", "link_node_action_to_asbuilt",
                "add_param_in_node"}

WriterMarker(op) ==
  IF op \in LinkOps THEN LinkMarker[op]
  ELSE IF op \in ListLinkOps THEN ListLinkMarker[op]
  ELSE "ADD_PARAM_NODE_OPERATION"

WriterInputs ==
  {[op |-> op, a |-> <<"n1">>, b |-> <<b>>, lst |-> <<>>] : op \in FlatWriters, b \in {"t1", "t2", "t3"}}
  \cup {[op |-> op, a |-> <<"n1">>, b |-> <<>>, lst |-> lst] : op \in ListLinkOps, lst \in Lists \ {<<>>}}

\* the node the writers act on: with no edge, one edge or two edges already
WriterStores ==
  {[n \in Iris |-> IF n = "n1" THEN Node({}, E, {}) ELSE NoNode] :
     E \in {{}, {Edge("hasOperation", <<"e0">>)},
            {Edge("hasOperation", <<"e0">>), Edge("hasAction", <<"e1">>)}}}

InitParse ==
  /\ simulation_mode = FALSE
  /\ nodes \in WriterStores
  /\ blobs = {}
  /\ dumps = [d \in DumpPaths |-> NoDump]
  /\ files = [f \in {SessionFile} |-> <<>>]
  /\ handlers = {SessionFile}
  /\ sent = <<>>
  /\ ret = None
  /\ last = [op |-> "__init__", kind |-> "none", sim |-> simulation_mode, resp |-> None,
             lines |-> 0, oks |-> 0, clean |-> TRUE]
  /\ calls = 0
  /\ rv = RvIdle
  /\ pre_session = [nodes |-> nodes, blobs |-> blobs]
  /\ px \in {[pc |-> "write", in |-> i, line |-> <<>>, parsed |-> ParseRaise] : i \in WriterInputs}
  /\ pg = Off
  /\ rs = Off
  /\ gw = Off

RunWriter(w, i, e) ==
  CASE i.op \in LinkOps -> link_node_to_target(w, i.op, i.a, i.b, e)
    [] i.op \in ListLinkOps -> link_node_to_list(w, i.op, i.a, i.lst, e)
    [] OTHER -> add_param_in_node(w, i.a, i.b, <<"v1">>, e)

Written(o) ==
  /\ nodes' = o.w.nodes
  /\ files' = o.w.files
  /\ sent' = o.w.sent
  /\ ret' = o.ret
  /\ px' = IF Len(o.w.files[SessionFile]) = 1
           THEN [px EXCEPT !.pc = "written", !.line = o.w.files[SessionFile][1]]
           ELSE [px EXCEPT !.pc = "no line"]
  /\ UNCHANGED <<simulation_mode, blobs, dumps, handlers, last, calls, rv, pre_session, pg, rs, gw>>

\* the operation is called once
PxWrite ==
  /\ px.pc = "write"
  /\ \E e \in Env(2) : Written(RunWriter(World, px.in, e))

\* get_info_from_log(line, marker) on the line just written
PxParse ==
  /\ px.pc = "written"
  /\ px' = [px EXCEPT !.pc = "parsed",
                      !.parsed = get_info_from_log(px.line, WriterMarker(px.in.op))]
  /\ UNCHANGED <<simulation_mode, nodes, blobs, dumps, files, handlers, sent, ret, last, calls,
                 rv, pre_session, pg, rs, gw>>

NextParse ==
  \/ PxWrite
  \/ PxParse

SpecParse == InitParse /\ [][NextParse]_vars

\* ------------------------------------------------------------------ query_all_pages
\* A result set is a chain of pages; every page but the last carries a `next`
\* cursor; `size` is the number of items of the page.  Item j of page i is the
\* number 10 * i + j.
Page(i, m, hasNext) == [items |-> [j \in 1..m |-> 10 * i + j], size |-> m, next |-> hasNext]

Chains ==
  {[i \in 1..Len(ms) |-> Page(i, ms[i], i < Len(ms))] :
     ms \in UNION {[1..n -> 0..MaxItems] : n \in 1..MaxPages}}

InitPages ==
  /\ simulation_mode = FALSE
  /\ nodes = OldStore
  /\ blobs = {}
  /\ dumps = [d \in DumpPaths |-> NoDump]
  /\ files = [f \in {SessionFile} |-> <<>>]
  /\ handlers = {SessionFile}
  /\ sent = <<>>
  /\ ret = None
  /\ last = [op |-> "__init__", kind |-> "none", sim |-> simulation_mode, resp |-> None,
             lines |-> 0, oks |-> 0, clean |-> TRUE]
  /\ calls = 0
  /\ rv = RvIdle
  /\ pre_session = [nodes |-> nodes, blobs |-> blobs]
  /\ px = Off
  /\ pg \in {[pc |-> "start", chain |-> c, back |-> 0,
              query_response_all_pages |-> Page(0, 0, FALSE),
              elements |-> Page(0, 0, FALSE), at |-> 0, fetched |-> 0, trace |-> <<>>] :
               c \in Chains}
  /\ rs = Off
  /\ gw = Off

PagesUnchanged ==
  UNCHANGED <<simulation_mode, nodes, blobs, dumps, files, handlers, sent, ret, last, calls,
              rv, pre_session, px, rs, gw>>

\* query_response_all_pages = fetch_function(*fetch_function_arg); elements = query_response_all_pages
PgFirst ==
  /\ pg.pc = "start"
  /\ pg' = [pg EXCEPT !.pc = "loop", !.query_response_all_pages = pg.chain[1],
                      !.elements = pg.chain[1], !.at = 1, !.fetched = 1, !.trace = <<1>>]
  /\ PagesUnchanged

LoopOnCursorOnly(elements) == elements.next

\* while 'next' in elements.keys() and elements['size'] != 0
LoopCondition(elements) == elements.next /\ elements.size # 0

MergeItemsOnly(all, elements) == [all EXCEPT !.items = @ \o elements.items]

\* query_response_all_pages['items'] += elements['items']; ...['size'] += elements['size']
MergePage(all, elements) ==
  [all EXCEPT !.items = @ \o elements.items, !.size = @ + elements.size]

CursorStays(p) == p.at

\* fetch_function(url=elements['next']): the page the cursor of the current page
\* leads to; the cursor of the last page of a chain, when it has one, leads back
\* into the chain
Cursor(p) == IF p.at < Len(p.chain) THEN p.at + 1 ELSE p.back

\* one iteration: the next page is fetched; a page with size <= 0 breaks the loop
PgLoop ==
  /\ pg.pc = "loop"
  /\ pg.fetched < MaxFetches
  /\ LoopCondition(pg.elements)
  /\ pg' = [pg EXCEPT !.elements = pg.chain[Cursor(pg)], !.at = Cursor(pg), !.fetched = @ + 1,
                      !.trace = Append(@, Cursor(pg)),
                      !.pc = IF pg.chain[Cursor(pg)].size <= 0 THEN "returned" ELSE "loop",
                      !.query_response_all_pages =
                         IF pg.chain[Cursor(pg)].size <= 0 THEN @
                         ELSE MergePage(@, pg.chain[Cursor(pg)])]
  /\ PagesUnchanged

\* the loop condition is false: return query_response_all_pages
PgReturn ==
  /\ pg.pc = "loop"
  /\ ~LoopCondition(pg.elements)
  /\ pg' = [pg EXCEPT !.pc = "returned"]
  /\ PagesUnchanged

NextPages ==
  \/ PgFirst
  \/ PgLoop
  \/ PgReturn

SpecPages == InitPages /\ [][NextPages]_vars

\* Result sets whose last page may carry a cursor too: a platform that never
\* stops handing out cursors.  The cursor of the last page leads to page `back`.
\* size is the number of items of a page, so it is never negative.
EndlessChains ==
  UNION {{[chain |-> [i \in 1..n |-> Page(i, ms[i], i < n \/ b > 0)], back |-> b] :
            ms \in [1..n -> 0..MaxItems], b \in 0..n} : n \in 1..MaxPages}

InitAnyPages ==
  /\ simulation_mode = FALSE
  /\ nodes = OldStore
  /\ blobs = {}
  /\ dumps = [d \in DumpPaths |-> NoDump]
  /\ files = [f \in {SessionFile} |-> <<>>]
  /\ handlers = {SessionFile}
  /\ sent = <<>>
  /\ ret = None
  /\ last = [op |-> "__init__", kind |-> "none", sim |-> simulation_mode, resp |-> None,
             lines |-> 0, oks |-> 0, clean |-> TRUE]
  /\ calls = 0
  /\ rv = RvIdle
  /\ pre_session = [nodes |-> nodes, blobs |-> blobs]
  /\ px = Off
  /\ pg \in {[pc |-> "start", chain |-> c.chain, back |-> c.back,
              query_response_all_pages |-> Page(0, 0, FALSE),
              elements |-> Page(0, 0, FALSE), at |-> 0, fetched |-> 0, trace |-> <<>>] :
               c \in EndlessChains}
  /\ rs = Off
  /\ gw = Off

\* the interpreter runs the loop on: a step that can be taken is taken
SpecAnyPages == InitAnyPages /\ [][NextPages]_vars /\ WF_vars(NextPages)

\* ------------------------------------------------------------------ revert_sessions
\* The files of a sessions directory.  A session log is named
\* db_session-<strftime('%Y%m%d-%H%M%S')>.log: the text of a name is its prefix,
\* its start time (fixed width, so one symbol that compares as the time does)
\* and its suffixes.
NameText ==
  [f \in {"db_session-1.log", "db_session-2.log", "db_session-3.log",
          "db_session-2.log.bak", "notes.txt", SessionFile} |->
     CASE f = "db_session-1.log" -> <<"db_session-", "1", ".log">>
       [] f = "db_session-2.log" -> <<"db_session-", "2", ".log">>
       [] f = "db_session-3.log" -> <<"db_session-", "3", ".log">>
       [] f = "db_session-2.log.bak" -> <<"db_session-", "2", ".log", ".bak">>
       [] f = "notes.txt" -> <<"notes", ".txt">>
       [] OTHER -> <<"f1">>]

DirNames == DOMAIN NameText \ {SessionFile}

\* the order of the symbols as str compares them ('.' < digits < letters)
SymbolOrder == <<".bak", ".log", ".txt", "1", "2", "3", "db_session-", "notes">>

Rank(sym) == CHOOSE i \in 1..Len(SymbolOrder) : SymbolOrder[i] = sym

\* a < b for two str
RECURSIVE TextLess(_, _)
TextLess(a, b) ==
  IF a = <<>> THEN b # <<>>
  ELSE IF b = <<>> THEN FALSE
  ELSE IF Head(a) = Head(b) THEN TextLess(Tail(a), Tail(b))
  ELSE Rank(Head(a)) < Rank(Head(b))

\* f.endswith(suffix)
EndsWith(f, suffix) == NameText[f][Len(NameText[f])] = suffix

RECURSIVE SortedDescending(_)
SortedDescending(S) ==
  IF S = {} THEN <<>>
  ELSE LET m == CHOOSE x \in S : \A y \in S \ {x} : TextLess(NameText[y], NameText[x])
       IN <<m>> \o SortedDescending(S \ {m})

\* sorted(log_files, reverse=False)
RECURSIVE sorted(_)
sorted(S) ==
  IF S = {} THEN <<>>
  ELSE LET m == CHOOSE x \in S : \A y \in S \ {x} : TextLess(NameText[x], NameText[y])
       IN <<m>> \o sorted(S \ {m})

\* what a session log of the directory holds
SessionLogs ==
  {<<>>,
   <<FormatLine(Stamps[1], Msg1("NEW_ELEMENT_IRI", <<"n1">>))>>,
   <<FormatLine(Stamps[1], Msg2("NEW_LINK_ELEMENT_BLOB", <<"u1">>, <<"b1">>)),
     FormatLine(Stamps[2], Msg1("NEW_ELEMENT_IRI", <<"n2">>))>>,
   <<FormatLine(Stamps[1], Msg1("NEW_LINK_ELEMENT_BLOB", <<"u1">>))>>}

InitSessions ==
  /\ simulation_mode \in BOOLEAN
  /\ nodes = OldStore
  /\ blobs = {"b1"}
  /\ dumps = [d \in DumpPaths |-> NoDump]
  /\ files \in {[f \in DOMAIN NameText |-> IF EndsWith(f, ".log") THEN lg[f] ELSE <<>>] :
                  lg \in [DirNames -> SessionLogs]}
  /\ handlers = {SessionFile}
  /\ sent = <<>>
  /\ ret = None
  /\ last = [op |-> "__init__", kind |-> "none", sim |-> simulation_mode, resp |-> None,
             lines |-> 0, oks |-> 0, clean |-> TRUE]
  /\ calls = 0
  /\ rv = RvIdle
  /\ pre_session = [nodes |-> nodes, blobs |-> blobs]
  /\ px = Off
  /\ pg = Off
  /\ rs \in {[pc |-> "start", listdir |-> D, sorted_log_files |-> <<>>, i |-> 1,
              started |-> <<>>, returned |-> <<>>] : D \in SUBSET DirNames}
  /\ gw = Off

\* revert_sessions(session_path): log_files = [f for f in os.listdir(...) if
\* f.endswith('.log')]; sorted_log_files = sorted(log_files, reverse=False)
ListLogFiles ==
  /\ rs.pc = "start"
  /\ rs' = [rs EXCEPT !.pc = "loop",
                      !.sorted_log_files = sorted({f \in rs.listdir : EndsWith(f, ".log")})]
  /\ UNCHANGED <<simulation_mode, nodes, blobs, dumps, files, handlers, sent, ret, last, calls,
                 rv, pre_session, px, pg, gw>>

\* for log_file in sorted_log_files: self.revert_last_session(...) is called
RevertNextFile ==
  /\ rs.pc = "loop"
  /\ rs.i <= Len(rs.sorted_log_files)
  /\ BeginRevert(rs.sorted_log_files[rs.i])
  /\ rs' = [rs EXCEPT !.i = @ + 1, !.started = Append(@, rs.sorted_log_files[rs.i])]

\* revert_last_session returns: print("Session reverted.")
FileReverted ==
  /\ rs.pc = "loop"
  /\ rv.pc = "done"
  /\ rv' = RvIdle
  /\ rs' = [rs EXCEPT !.returned = Append(@, rs.started[Len(rs.started)])]
  /\ UNCHANGED <<simulation_mode, nodes, blobs, dumps, files, handlers, sent, ret, last, calls,
                 pre_session, px, pg, gw>>

\* the loop is over and revert_sessions returns, or the exception that left
\* revert_last_session leaves revert_sessions too
SessionsReturn ==
  /\ rs.pc = "loop"
  /\ \/ rv.pc = "idle" /\ rs.i > Len(rs.sorted_log_files) /\ rs' = [rs EXCEPT !.pc = "returned"]
     \/ rv.pc = "raised" /\ rs' = [rs EXCEPT !.pc = "raised"]
  /\ UNCHANGED <<simulation_mode, nodes, blobs, dumps, files, handlers, sent, ret, last, calls,
                 rv, pre_session, px, pg, gw>>

NextSessions ==
  \/ ListLogFiles
  \/ RevertNextFile
  \/ RevertStep
  \/ FileReverted
  \/ SessionsReturn

SpecSessions == InitSessions /\ [][NextSessions]_vars

\* ------------------------------------------------------------------ the gateway called directly
\* post_general_request, post_guarded_request and put_guarded_request are
\* public: a caller hands them a payload and a URL (' ' is the default URL)
GatewayRequests ==
  {Req("update_set", <<"n1">>, {<<(<<"p2">>), <<"v1">>>>}, {}, <<>>),
   Req("update_unset", <<"n2">>, {<<(<<"p1">>), <<"delete">>>>}, {}, <<>>),
   Req("add_node", <<"n2">>, {}, {}, <<>>),
   Req("delete_avatar_iri", <<"n1">>, {}, {}, <<>>),
   Req("get_find_elements", <<"n1">>, {}, {}, <<>>)}

\* the call returns or raises; gw records the call and what the store would
\* answer to its request
GatewayReturns(fn, method, r, up, g) ==
  /\ rv.pc = "idle"
  /\ calls < MaxCalls
  /\ nodes' = g.w.nodes
  /\ blobs' = g.w.blobs
  /\ sent' = g.w.sent
  /\ ret' = IF g.raised THEN Raise ELSE IF g.response = None THEN None ELSE "response"
  /\ gw' = [pc |-> "returned", fn |-> fn, method |-> method, sim |-> simulation_mode, req |-> r,
            answer |-> IF up /\ StoreCan(World, r) THEN "ok" ELSE "fail",
            response |-> g.response, error |-> g.error, events |-> g.w.events,
            sent |-> g.w.sent,
            ret |-> IF g.raised THEN Raise ELSE IF g.response = None THEN None ELSE "response"]
  /\ calls' = calls + 1
  /\ UNCHANGED <<simulation_mode, dumps, files, handlers, last, rv, pre_session, px, pg, rs>>

\* a guarded request never raises
Returned(g) == [w |-> g.w, raised |-> FALSE, response |-> g.response, error |-> None]

PostGeneralRequest ==
  \E r \in GatewayRequests \cup {Req(" ", <<"n1">>, {}, {}, <<>>)}, up \in BOOLEAN :
    GatewayReturns("post_general_request", <<"POST">>, r, up, post_general_request(World, r, up))

PostGuardedRequest ==
  \E r \in GatewayRequests, up \in BOOLEAN :
    GatewayReturns("post_guarded_request", <<"POST">>, r, up, Returned(general_guarded_request(World, r, up)))

PutGuardedRequest ==
  \E r \in GatewayRequests, up \in BOOLEAN :
    GatewayReturns("put_guarded_request", <<"PUT">>, r, up, Returned(general_guarded_request(World, r, up)))

\* req_type as a caller may pass it: a word in some case, with or without
\* surrounding blanks, or nothing but blanks
RequestTypes == {<<"POST">>, <<" ", "put", " ">>, <<"post">>, <<"GET">>, <<" ">>, <<>>}

\* str.upper(), word by word
upper(s) ==
  [i \in 1..Len(s) |->
     CASE s[i] = "put" -> "PUT"
       [] s[i] = "post" -> "POST"
       [] OTHER -> s[i]]

\* req_type_fix = req_type.strip().upper()
req_type_fix(req_type) == upper(Strip(req_type))

\* the two checks on req_type_fix: each builds an Exception and drops it (there
\* is no raise statement), so neither leaves the function
RequestTypeRaises(fix) ==
  IF Len(fix) = 0 THEN FALSE
  ELSE IF fix # <<"PUT">> \/ fix # <<"POST">> THEN FALSE
  ELSE FALSE

\* general_guarded_request(req_type, payload, url): the checks, then the
\* request of method req_type_fix is prepared, logged and sent
GuardedOfType(w, req_type, r, up) ==
  IF RequestTypeRaises(req_type_fix(req_type))
  THEN [w |-> w, raised |-> TRUE, response |-> None,
        error |-> <<"Request type has to be: PUT or POST!">>]
  ELSE Returned(general_guarded_request(w, r, up))

GeneralGuardedRequest ==
  \E req_type \in RequestTypes, r \in GatewayRequests, up \in BOOLEAN :
    GatewayReturns("general_guarded_request", req_type_fix(req_type), r, up,
                   GuardedOfType(World, req_type, r, up))

NextGateway ==
  \/ set_simulation_mode
  \/ GeneralGuardedRequest
  \/ PostGeneralRequest
  \/ PostGuardedRequest
  \/ PutGuardedRequest

SpecGateway == Init /\ [][NextGateway]_vars

\* ------------------------------------------------------------------ properties
Store == [nodes |-> nodes, blobs |-> blobs]

\* the step just taken was a call of an API operation / of one that logs
ApiCall == last.kind \in {"inverse", "logged", "plain"}
LoggingCall == last.kind \in {"inverse", "logged"}

\* operations that read the node before they build their request
FetchFirstOps ==
  ListLinkOps \cup UpdateOps
    \cup {"update_construction_node", "delete_node_from_graph", "delete_node_from_graph_with_iri"}

\* C1: after a session of successful mutations whose markers all have an
\* inverse, made with simulation off and every request answered,
\* revert_last_session on the session's log leaves nodes, fields, edges and
\* blobs exactly as they were before the first mutation.
C1_RevertRestoresStore ==
  (rv.pc = "done" /\ last.clean /\ ~simulation_mode /\ calls >= 1) => Store = pre_session

\* C2: revert_last_session dispatches the compensations in the reverse order of
\* the log: a later line is always dispatched before an earlier one, and no
\* line is dispatched twice.
C2_ReverseOrder ==
  \A i, j \in 1..Len(rv.dispatched) : i < j => rv.dispatched[i] > rv.dispatched[j]

C2_Witness == rv.pc = "done" /\ Len(rv.lines) = 3 /\ rv.dispatched = <<3, 2, 1>>

\* C3: a log whose middle line names a recognized marker with the wrong number
\* of fields, between two valid NEW_ELEMENT_IRI lines, is reverted for both
\* valid lines: the node deletion is issued for line 3 and for line 1, and
\* revert_last_session does not raise.
C3_Sandwich ==
  /\ Len(rv.lines) = 3
  /\ rv.lines[1] = FormatLine(Stamps[1], Msg1("NEW_ELEMENT_IRI", <<"n1">>))
  /\ rv.lines[2] = FormatLine(Stamps[2], Msg1("NEW_LINK_ELEMENT_BLOB", <<"u1">>))
  /\ rv.lines[3] = FormatLine(Stamps[3], Msg1("NEW_ELEMENT_IRI", <<"n2">>))

C3_BadLineSkipped ==
  (C3_Sandwich /\ last.clean /\ rv.pc \in {"done", "raised"})
    => /\ rv.pc = "done"
       /\ rv.dispatched = <<3, 1>>
       /\ rv.called = <<"delete_node_from_graph", "delete_node_from_graph">>

\* C4: get_info_from_log is a left inverse of the writers: the line written for
\* (a, b) parses to [a, b], and the line written for (a, list) parses to
\* [a, list] with every sub-item the identifier that was passed.
C4_ParserInvertsWriter ==
  px.pc = "parsed"
    => IF px.in.op \in ListLinkOps
       THEN px.parsed = [kind |-> "nested", items |-> <<px.in.a>>, sub |-> px.in.lst]
       ELSE px.parsed = [kind |-> "flat", items |-> <<px.in.a, px.in.b>>, sub |-> <<>>]

\* C5: reverting the single line 'NEW_LINK_CONSTR_OPERATION: n1, [op1, op2]'
\* sends exactly one unlink request for n1 whose edges point to exactly the
\* identifiers op1 and op2.
C5_Line ==
  FormatLine(Stamps[1], MsgBracket("NEW_LINK_CONSTR_OPERATION", <<"n1">>, <<"op1">>, <<"op2">>))

C5_OneUnlinkOfBoth ==
  (rv.lines = <<C5_Line>> /\ rv.pc = "done" /\ last.clean /\ ~simulation_mode)
    => /\ Len(sent) = 1
       /\ sent[1].url = "update_unset"
       /\ sent[1].key = <<"n1">>
       /\ sent[1].outE = {Edge("hasOperation", <<"op1">>), Edge("hasOperation", <<"op2">>)}

\* C6: query_all_pages returns the items of the first page followed, in page
\* order, by the items of every page up to the first page that is empty or has
\* no next cursor (that page included when it is not empty), and the sum of the
\* sizes of those pages; the chain of sizes 2, 1, 0 yields three items, size 3.
StopsPaging(page) == page.size <= 0 \/ ~page.next

StopPage(c) ==
  CHOOSE j \in 1..Len(c) : StopsPaging(c[j]) /\ \A i \in 1..(j - 1) : ~StopsPaging(c[i])

RECURSIVE ItemsUpTo(_, _)
ItemsUpTo(c, k) ==
  IF k = 0 THEN <<>>
  ELSE ItemsUpTo(c, k - 1) \o (IF k = 1 \/ c[k].size > 0 THEN c[k].items ELSE <<>>)

RECURSIVE SizeUpTo(_, _)
SizeUpTo(c, k) ==
  IF k = 0 THEN 0
  ELSE SizeUpTo(c, k - 1) + (IF k = 1 \/ c[k].size > 0 THEN c[k].size ELSE 0)

C6_AllPagesMerged ==
  pg.pc = "returned"
    => /\ pg.query_response_all_pages.items = ItemsUpTo(pg.chain, StopPage(pg.chain))
       /\ pg.query_response_all_pages.size = SizeUpTo(pg.chain, StopPage(pg.chain))
       /\ pg.fetched = StopPage(pg.chain)

C6_Witness ==
  /\ pg.pc = "returned"
  /\ pg.chain = <<Page(1, 2, TRUE), Page(2, 1, TRUE), Page(3, 0, FALSE)>>
  /\ pg.query_response_all_pages.items = <<11, 12, 21>>
  /\ pg.query_response_all_pages.size = 3

\* C7 (as stated): with simulation mode on, a call of a guarded mutating
\* operation sends nothing to the store.
C7_NoSendInSimulation == (ApiCall /\ last.sim) => sent = <<>>

\* C7 (amended): with simulation mode on, a call of a guarded mutating operation
\* sends no mutating request; the operations that read the node first still
\* send that one read, every other operation sends nothing.
C7_NoMutationInSimulation ==
  (ApiCall /\ last.sim)
    => /\ \A i \in 1..Len(sent) : sent[i].url \in ReadUrls
       /\ Len(sent) <= 1
       /\ last.op \notin FetchFirstOps => sent = <<>>

C7_Witness ==
  /\ ApiCall /\ last.sim
  /\ last.op = "link_node_constr_to_operation"
  /\ ret = "True"
  /\ Len(sent) = 1

\* C8: with simulation mode on, every call of a guarded mutating operation that
\* returns, returns a truthy value: True, or a placeholder identifier.
C8_TruthyInSimulation == (ApiCall /\ last.sim /\ ret # Raise) => Truthy(ret)

\* C9 (as stated): with simulation mode on, each call of a logging operation
\* still appends one line to the session log.
C9_LineInSimulation == (LoggingCall /\ last.sim /\ Truthy(ret)) => last.lines = 1

\* C9 (amended): with simulation mode on, no call of a mutating operation
\* appends a line to the session log.
C9_NoLineInSimulation == (ApiCall /\ last.sim) => last.lines = 0

C9_Witness ==
  /\ LoggingCall /\ last.sim
  /\ last.op = "create_asbuilt_node"
  /\ ret = "True"
  /\ last.lines = 0
  /\ Len(files[SessionFile]) = 1

\* C10 (as stated): a logging operation appends a line only after an ok
\* response; a call whose response is not ok returns False and leaves the log
\* unchanged.
C10_FalseOnFailure ==
  LoggingCall => /\ last.lines = 1 <=> last.resp = "ok"
                 /\ last.resp = "fail" => ret = "False"

\* C10 (amended): a logging operation appends exactly one line when the store
\* answered its request with ok and none otherwise; a call whose response is
\* not ok returns False, except send_blob_as_text_get_uuid, which raises; the
\* number of lines of the session log equals the number of ok responses.
C10_OnlyOkLogged ==
  /\ LoggingCall => /\ last.lines = (IF last.resp = "ok" THEN 1 ELSE 0)
                    /\ last.resp = "fail" =>
                         ret = (IF last.op = "send_blob_as_text_get_uuid" THEN Raise ELSE "False")
  /\ rv.pc = "idle" => Len(files[SessionFile]) = last.oks

C10_Witness ==
  /\ LoggingCall
  /\ last.resp = "fail"
  /\ ret = "False"
  /\ last.lines = 0
  /\ last.oks = 1
  /\ Len(files[SessionFile]) = 1

\* the start time a session log's name encodes
StartTime(f) == Rank(NameText[f][2])

\* C11: revert_sessions reverts the session logs from newest to oldest: a log
\* with a later start time in its name is reverted before any log with an
\* earlier start time.
C11_NewestFirst ==
  \A i, j \in 1..Len(rs.started) :
    i < j => StartTime(rs.started[i]) > StartTime(rs.started[j])

WellFormed(line, m) == m = None \/ Unpacks(m, Values(get_info_from_log(line, m)))

Recognized(line) == FirstIn(MarkerOrder, line) # None \/ FirstIn(NodeClassOrder, line) # None

\* C13: revert_last_session always completes its pass: on a log of well-formed
\* lines, whatever store call or backup read fails while one line is
\* compensated, the method does not raise and every line with a recognized
\* marker is dispatched.
C13_PassCompletes ==
  (/\ rv.pc \in {"done", "raised"}
   /\ \A i \in 1..Len(rv.lines) : WellFormed(rv.lines[i], FirstIn(MarkerOrder, rv.lines[i])))
    => /\ rv.pc = "done"
       /\ Len(rv.dispatched) = Cardinality({i \in 1..Len(rv.lines) : Recognized(rv.lines[i])})

\* the dump path an UPDATE_*_IRI line records
DumpOf(line) == Values(get_info_from_log(line, FirstIn(MarkerOrder, line)))[2].v[1]

\* C14: when a session of successful updates of node n1 is reverted, the dump
\* path recorded in its first UPDATE_*_IRI line holds the node as it was
\* immediately before that update, that is, before the session.
C14_DumpIsPreUpdate ==
  (/\ rv.pc = "run"
   /\ last.clean /\ ~simulation_mode
   /\ \A i \in 1..Len(rv.lines) :
        FirstIn(MarkerOrder, rv.lines[i])
          \in {"UPDATE_ACTION_IRI", "UPDATE_OPERATION_IRI", "UPDATE_CONSTRUCTION_IRI"})
    => /\ dumps[DumpOf(rv.lines[1])].exists
       /\ dumps[DumpOf(rv.lines[1])].items[1].node = pre_session.nodes["n1"]

\* C15: after link_node_constr_to_operation (link_node_operation_to_action)
\* succeeded and its line was reverted, the edges the call added are unlinked
\* and the edges the node had before are in place: the node's edges are the
\* ones it had before the call.
C15_AddedEdgesUnlinked ==
  (/\ rv.pc = "done"
   /\ last.clean /\ ~simulation_mode
   /\ Len(rv.lines) = 1
   /\ FirstIn(MarkerOrder, rv.lines[1]) \in {"NEW_LINK_CONSTR_OPERATION", "NEW_LINK_OPERATION_ACTION"})
    => /\ rv.called \in {<<"unlink_constr_op">>, <<"unlink_operation_action">>}
       /\ nodes["n1"].outE = pre_session.nodes["n1"].outE

\* the markers the writers use that are not in log_markers, and the operations
\* that write them
UnregisteredMarkers ==
  {"NEW_LINK_ELEMENT_DEFECT", "NEW_LINK_SCHEDULE_CONSTR", "UPDATE_ELEMENT_IRI",
   "DELETE_NODE_UUID", "DELETE_NODE_IRI"}

UnregisteredWriters ==
  {"link_node_element_to_defect", "link_node_schedule_to_constr", "update_asbuilt_node",
   "delete_node_from_graph", "delete_node_from_graph_with_iri"}

\* the positions of line that hold a marker of the set
MarkersIn(line, markers) == {i \in 1..Len(line) : line[i] \in markers}

LastLine == files[SessionFile][Len(files[SessionFile])]

\* C16 (as stated): every line of the session log contains exactly one marker
\* of the recognized marker set.
C16_OneRecognizedMarker ==
  \A i \in 1..Len(files[SessionFile]) :
    Cardinality(MarkersIn(files[SessionFile][i], log_markers)) = 1

\* C16 (amended): every line of the session log contains exactly one marker,
\* right after "DTP_API - "; the marker is one of the recognized set unless the
\* line was written by link_node_element_to_defect, link_node_schedule_to_constr,
\* update_asbuilt_node, delete_node_from_graph or delete_node_from_graph_with_iri,
\* whose markers are outside the set.
C16_OneMarkerPerLine ==
  /\ \A i \in 1..Len(files[SessionFile]) :
       /\ Cardinality(MarkersIn(files[SessionFile][i], log_markers \cup UnregisteredMarkers)) = 1
       /\ files[SessionFile][i][9] \in log_markers \cup UnregisteredMarkers
  /\ (LoggingCall /\ last.lines = 1)
       => /\ last.op \in UnregisteredWriters <=> LastLine[9] \in UnregisteredMarkers
          /\ last.op \notin UnregisteredWriters <=> LastLine[9] \in log_markers

C16_Witness ==
  /\ LoggingCall /\ last.lines = 1
  /\ last.op = "link_node_element_to_defect"
  /\ LastLine[9] = "NEW_LINK_ELEMENT_DEFECT"
  /\ Len(files[SessionFile]) = 2
  /\ files[SessionFile][1][9] = "NEW_ELEMENT_IRI"

GuardedCall == gw.pc = "returned" /\ gw.fn \in {"post_guarded_request", "put_guarded_request"}

\* C18: general_guarded_request returns None without sending anything when
\* simulation mode is on; when it is off it sends the request exactly once and
\* returns the raw response, ok or not, and never raises.
C18_GuardedRequest ==
  GuardedCall
    => IF gw.sim
       THEN gw.ret = None /\ gw.response = None /\ gw.sent = <<>>
       ELSE gw.sent = <<gw.req>> /\ gw.ret = "response" /\ gw.response = gw.answer

C18_Witness ==
  /\ GuardedCall
  /\ ~gw.sim
  /\ gw.answer = "fail"
  /\ gw.ret = "response"
  /\ gw.response = "fail"
  /\ Len(gw.sent) = 1

\* C19: post_general_request, given a valid URL, sends the request whatever the
\* simulation mode is, returns the response when it is ok, and raises an error
\* whose message carries the HTTP status code when it is not.
C19_PostGeneralRequest ==
  (gw.pc = "returned" /\ gw.fn = "post_general_request" /\ gw.req.url # " ")
    => /\ gw.sent = <<gw.req>>
       /\ IF gw.answer = "ok"
          THEN gw.ret = "response" /\ gw.response = "ok" /\ gw.error = None
          ELSE /\ gw.ret = Raise
               /\ gw.error # None
               /\ gw.error[Len(gw.error)] = status_code(FALSE)

C19_Witness ==
  /\ gw.pc = "returned" /\ gw.fn = "post_general_request"
  /\ gw.sim
  /\ gw.answer = "fail"
  /\ gw.ret = Raise
  /\ Len(gw.sent) = 1

\* C20: every gateway call that builds a request (post_general_request rejects
\* an invalid URL before it builds one) writes the request to the diagnostic log
\* first, before the simulation guard and before any send: in simulation mode
\* the request record is written although nothing is sent, and when the request
\* is sent the response status record follows the send.
C20_RequestLoggedFirst ==
  (gw.pc = "returned" /\ gw.req.url # " ")
    => /\ gw.events # <<>>
       /\ gw.events[1] = "HTTP request"
       /\ Cardinality({i \in 1..Len(gw.events) : gw.events[i] = "HTTP request"}) = 1
       /\ (GuardedCall /\ gw.sim) => gw.events = <<"HTTP request">> /\ gw.sent = <<>>
       /\ \A i \in 1..Len(gw.events) :
            gw.events[i] = "send"
              => i > 1 /\ i < Len(gw.events) /\ gw.events[i + 1] = "Response code"
       /\ Cardinality({i \in 1..Len(gw.events) : gw.events[i] = "send"}) = Len(gw.sent)

C20_Witness ==
  /\ GuardedCall
  /\ gw.sim
  /\ gw.events = <<"HTTP request">>
  /\ gw.sent = <<>>
  /\ gw.ret = None

\* C21: every operation that validates an identifier raises on a malformed
\* value before any request is sent and before any backup file is written.
C21_ValidationFirst ==
  last.kind = "malformed"
    => ret = Raise /\ sent = <<>> /\ ~dumps["notaurl.json"].exists


\* a line in which revert_last_session finds no marker at all
Unmarked(line) == FirstIn(MarkerOrder, line) = None /\ FirstIn(NodeClassOrder, line) = None

\* a node-creation line whose IRI names no node of the store, read with
\* simulation mode off: get_uuid_for_iri raises whatever the network does
LookupFails(line) ==
  /\ FirstIn(MarkerOrder, line) = None
  /\ FirstIn(NodeClassOrder, line) # None
  /\ ~simulation_mode
  /\ ~HasNode(World, IdsAfter(line, Find(line, FirstIn(NodeClassOrder, line))))

\* the iteration of the revert loop that reads line number ln
ReadsLine(ln) == rv.pc = "run" /\ rv.order[rv.k] = ln /\ rv'.k = rv.k + 1

\* the pass goes on after line ln: it is over, or the line before ln is next
GoesOn(ln) ==
  /\ rv'.pc \in {"run", "done"}
  /\ ret' # Raise
  /\ rv'.pc = "run" => rv'.order[rv'.k] = ln - 1

\* C22: during revert a line with no recognized marker causes no store call and
\* no error; a node-creation line whose IRI-to-UUID lookup fails causes an error
\* record carrying the line's timestamp and no delete request, and the pass
\* continues with the next (earlier) line.
C22_BadLinesSkipped ==
  [][\A ln \in 1..MaxLines :
       ReadsLine(ln) =>
         /\ Unmarked(rv.lines[ln]) =>
              /\ sent' = sent /\ nodes' = nodes /\ blobs' = blobs
              /\ rv'.log = rv.log
              /\ GoesOn(ln)
         /\ LookupFails(rv.lines[ln]) =>
              /\ rv'.log = Append(rv.log, ErrorRecord(<<rv.lines[ln][1]>>))
              /\ \A i \in (Len(sent) + 1)..Len(sent') :
                    sent'[i].url \notin {"delete_avatar", "delete_avatar_iri"}
              /\ nodes' = nodes
              /\ GoesOn(ln)]_vars

C22_Witness ==
  /\ rv.pc = "done"
  /\ ~simulation_mode
  /\ Len(rv.lines) = 3
  /\ Unmarked(rv.lines[3])
  /\ Has(rv.lines[2], "NEW_KPI_IRI")
  /\ Has(rv.lines[1], "NEW_LINK_ELEMENT_BLOB")
  /\ rv.log = <<ErrorRecord(<<rv.lines[2][1]>>), RevertedRecord(<<rv.lines[1][1]>>)>>
  /\ rv.called = <<"get_uuid_for_iri", "unlink_node_from_blob">>

\* the loop of query_all_pages stops on this page: the first page stops it when
\* it has no cursor or no item, a later one when it has no item or no cursor
HasStop(c) == \E j \in 1..Len(c) : StopsPaging(c[j])

\* C23: query_all_pages on a first page with size == 0 returns that empty result
\* at once: the fetch function is invoked exactly once, even when the first page
\* carries a next cursor.
C23_EmptyFirstPage ==
  (pg.pc # "off" /\ pg.pc # "start" /\ pg.chain[1].size = 0)
    => /\ pg.fetched = 1
       /\ pg.trace = <<1>>
       /\ pg.query_response_all_pages = pg.chain[1]
       /\ pg.query_response_all_pages.items = <<>>

C23_Witness ==
  /\ pg.pc = "returned"
  /\ pg.chain[1].size = 0
  /\ pg.chain[1].next
  /\ Len(pg.chain) = 3
  /\ pg.chain[2].size > 0
  /\ pg.fetched = 1
  /\ pg.query_response_all_pages.size = 0

\* C24: query_all_pages terminates on every page chain in which some reachable
\* page has no next cursor or has no item, after fetching each page of the chain
\* at most once and in cursor order (a later page without items is fetched but
\* not merged); on a chain whose every page has a next cursor and items it never
\* terminates.
C24_TerminatesIffStop ==
  /\ [](pg.pc = "start" => (HasStop(pg.chain) ~> pg.pc = "returned"))
  /\ [](pg.pc = "returned"
          => /\ HasStop(pg.chain)
             /\ pg.trace = [k \in 1..StopPage(pg.chain) |-> k]
             /\ pg.query_response_all_pages.items = ItemsUpTo(pg.chain, StopPage(pg.chain)))
  /\ []((pg.pc = "loop" /\ ~HasStop(pg.chain)) => LoopCondition(pg.elements))

C24_Witness ==
  /\ pg.pc = "loop"
  /\ ~HasStop(pg.chain)
  /\ Len(pg.chain) = 2
  /\ pg.trace = <<1, 2, 1, 2, 1, 2>>

\* C25: revert_last_session writes the per-line confirmation record for every
\* line of the session log, whether or not the line matched a marker and whether
\* or not its compensation succeeded.
C25_EveryLineConfirmed ==
  rv.pc = "done"
    => \A ln \in 1..Len(rv.lines) :
         \E i \in 1..Len(rv.log) : rv.log[i] = RevertedRecord(msg_date(rv.lines[ln]))

\* C26: at the end of revert_last_session the running counter equals the number
\* of log lines whose compensation was issued and succeeded.
C26_CounterCountsSuccesses == rv.pc = "done" => rv.counter = rv.succeeded

\* the compensation each branch of the if / elif chain calls
CompensationOf ==
  [NEW_LINK_ELEMENT_BLOB |-> "unlink_node_from_blob",
   NEW_BLOB |-> "delete_blob_from_platform",
   UPDATE_isAsDesigned_PARAM_NODE_OPERATION |-> "delete_asdesigned_param_node",
   UPDATE_ACTION_IRI |-> "revert_node_update",
   UPDATE_OPERATION_IRI |-> "revert_node_update",
   UPDATE_CONSTRUCTION_IRI |-> "revert_node_update",
   REMOVED_PARAM_NODE_OPERATION |-> "add_param_in_node",
   ADD_PARAM_NODE_OPERATION |-> "delete_param_in_node",
   NEW_LINK_ELEMENT_ELEMENT_TYPE |-> "unlink_element_type",
   NEW_LINK_CONSTR_OPERATION |-> "unlink_constr_op",
   NEW_LINK_OPERATION_ACTION |-> "unlink_operation_action",
   NEW_LINK_ACTION_ASBUILT |-> "unlink_action_asbuilt",
   NEW_LINK_NODE_TASK_TYPE |-> "unlink_task_type"]

\* the first marker of the chain's order that occurs in the line
FirstMarker(line) ==
  IF \E i \in 1..Len(MarkerOrder) : Has(line, MarkerOrder[i])
  THEN MarkerOrder[CHOOSE i \in 1..Len(MarkerOrder) :
         Has(line, MarkerOrder[i]) /\ \A j \in 1..(i - 1) : ~Has(line, MarkerOrder[j])]
  ELSE None

\* the requests of one iteration that change the store
Mutating(before, after) ==
  {i \in (Len(before) + 1)..Len(after) : after[i].url \notin ReadUrls}

\* C27: each line of the session log triggers at most one compensation during
\* revert: the markers are tested in one fixed order, the first marker found in
\* the line selects the compensation, and the node-creation markers are
\* considered only when none of the other markers occurs in the line.
C27_OneCompensationPerLine ==
  [][\A ln \in 1..MaxLines :
       ReadsLine(ln) =>
         /\ Len(rv'.called) <= Len(rv.called) + 1
         /\ Cardinality(Mutating(sent, sent')) <= 1
         /\ Len(rv'.called) = Len(rv.called) + 1 =>
              /\ rv'.dispatched = Append(rv.dispatched, ln)
              /\ IF FirstMarker(rv.lines[ln]) # None
                 THEN rv'.called[Len(rv'.called)] = CompensationOf[FirstMarker(rv.lines[ln])]
                 ELSE /\ \E c \in log_markers_node_classes : Has(rv.lines[ln], c)
                      /\ rv'.called[Len(rv'.called)]
                           \in {"get_uuid_for_iri", "delete_node_from_graph"}]_vars

C27_Witness ==
  /\ rv.pc = "done"
  /\ ~simulation_mode
  /\ Len(rv.lines) = 2
  /\ Has(rv.lines[2], "NEW_BLOB") /\ Has(rv.lines[2], "NEW_ELEMENT_IRI")
  /\ Has(rv.lines[1], "NEW_LINK_ELEMENT_ELEMENT_TYPE") /\ Has(rv.lines[1], "NEW_BLOB")
  /\ rv.called = <<"delete_blob_from_platform", "delete_blob_from_platform">>
  /\ Len(sent) = 2

\* C28: a successful mutation appends its line to exactly one session log file,
\* the one bound most recently: after init_logger(p2) in a process whose session
\* logger was bound to p1, later mutations append to p2 only and p1 is left
\* unchanged.
C28_OnlyNewestFileWritten ==
  [][(NewFile \in handlers /\ last'.kind \in {"inverse", "logged"} /\ calls' = calls + 1)
       => /\ files'[SessionFile] = files[SessionFile]
          /\ last'.resp = "ok" => Len(files'[NewFile]) = Len(files[NewFile]) + 1]_vars

\* the compensations that write a session line when they succeed, and the
\* markers of those lines
LoggingCompensations == {"delete_node_from_graph", "add_param_in_node", "delete_param_in_node"}

CompensationMarkers ==
  {"DELETE_NODE_UUID", "ADD_PARAM_NODE_OPERATION", "REMOVED_PARAM_NODE_OPERATION"}

\* the lines the session log has gained since revert_last_session read it
GainedLines == (Len(rv.lines) + 1)..Len(files[SessionFile])

\* C29 (as stated): the compensations issued by revert_last_session write to no
\* session log: after a revert with simulation off and every response ok, the
\* session log has as many lines as before the revert.
C29_RevertWritesNoLine ==
  (rv.pc = "done" /\ ~simulation_mode /\ last.clean)
    => Len(files[SessionFile]) = Len(rv.lines)

\* C29 (amended): a revert never changes the lines its log had; the session log
\* gains at most one line for each call of delete_node_from_graph,
\* add_param_in_node and delete_param_in_node the revert made, under the marker
\* of that operation, and no line for any other compensation and none in
\* simulation mode.
C29_OnlyThreeCompensationsLog ==
  rv.pc # "idle"
    => /\ SubSeq(files[SessionFile], 1, Len(rv.lines)) = rv.lines
       /\ \A i \in GainedLines : files[SessionFile][i][9] \in CompensationMarkers
       /\ Cardinality(GainedLines)
            <= Cardinality({i \in 1..Len(rv.called) : rv.called[i] \in LoggingCompensations})
       /\ simulation_mode => GainedLines = {}

C29_Witness ==
  /\ rv.pc = "done"
  /\ ~simulation_mode
  /\ last.clean
  /\ Len(rv.lines) = 2
  /\ rv.called = <<"delete_param_in_node", "delete_node_from_graph">>
  /\ Len(files[SessionFile]) = 4
  /\ files[SessionFile][3][9] = "REMOVED_PARAM_NODE_OPERATION"
  /\ files[SessionFile][4][9] = "DELETE_NODE_UUID"

\* C30: general_guarded_request sends only PUT or POST: a request type that is
\* empty, or anything else than PUT or POST after strip and upper, raises
\* before the request is prepared, logged or sent.
C30_OnlyPutOrPost ==
  (gw.pc = "returned" /\ gw.fn = "general_guarded_request"
     /\ gw.method \notin {<<"PUT">>, <<"POST">>})
    => gw.ret = Raise /\ gw.events = <<>> /\ gw.sent = <<>>

====
